---- MODULE Spec2Model ----
(***************************************************************************)
(* Verification model of the NorthStar query-plan viewer:                  *)
(*   - the tree layout of the plan graph (renderFromTopology,              *)
(*     calculateTreeLayout with its two recursive passes),                 *)
(*   - the infinite-canvas camera and its interaction handlers             *)
(*     (2d_viewport_feature.md).                                           *)
(*                                                                         *)
(* JavaScript numbers are modelled as exact rationals <<n, d>> in lowest   *)
(* terms (d > 0); IEEE rounding is abstracted away.  The layout only ever  *)
(* produces integers (all widths are even), so it uses plain integers.     *)
(***************************************************************************)
EXTENDS Integers, Sequences, FiniteSets, TLC

\* ------------------------------------------------------------------------
\* Bounds of the model
\* ------------------------------------------------------------------------
MaxNodes == 5       \* records in the topology's node list
MaxCalls == 2       \* calls of calculateTreeLayout on one graph

\* ------------------------------------------------------------------------
\* Program constants
\* ------------------------------------------------------------------------
NODE_WIDTH == 140
NODE_HEIGHT == 50
HORIZONTAL_SPACING == 30
VERTICAL_SPACING == 70

\* ------------------------------------------------------------------------
\* Small helpers
\* ------------------------------------------------------------------------
Max(a, b) == IF a >= b THEN a ELSE b
Min(a, b) == IF a <= b THEN a ELSE b

\* ------------------------------------------------------------------------
\* JavaScript numbers: <<n, d>> in lowest terms, d >= 0.  d = 0 carries the
\* IEEE special values: <<1, 0>> Infinity, <<-1, 0>> -Infinity, <<0, 0>> NaN.
\* ------------------------------------------------------------------------
Abs(a) == IF a < 0 THEN -a ELSE a
Sgn(a) == IF a < 0 THEN -1 ELSE IF a > 0 THEN 1 ELSE 0

RECURSIVE GCD(_, _)
GCD(a, b) == IF b = 0 THEN a ELSE GCD(b, a % b)

Norm(n, d) ==
  IF d = 0 THEN <<Sgn(n), 0>>
  ELSE LET g == GCD(Abs(n), Abs(d))
       IN <<Sgn(d) * (n \div g), Abs(d) \div g>>

Q(i) == <<i, 1>>
NaN == <<0, 0>>
IsNaN(a) == a = NaN
IsFinite(a) == a[2] # 0

QNeg(a) == <<-a[1], a[2]>>
QAdd(a, b) ==
  IF a[2] = 0 /\ b[2] = 0 THEN (IF a = b THEN a ELSE NaN)
  ELSE IF a[2] = 0 THEN a
  ELSE IF b[2] = 0 THEN b
  ELSE LET g == GCD(a[2], b[2])
       IN Norm(a[1] * (b[2] \div g) + b[1] * (a[2] \div g), (a[2] \div g) * b[2])
QSub(a, b) == QAdd(a, QNeg(b))
QMul(a, b) ==
  IF a[2] = 0 \/ b[2] = 0 THEN Norm(a[1] * b[1], 0)
  ELSE LET g1 == GCD(Abs(a[1]), b[2])
           g2 == GCD(Abs(b[1]), a[2])
           h1 == IF g1 = 0 THEN 1 ELSE g1
           h2 == IF g2 = 0 THEN 1 ELSE g2
       IN Norm((a[1] \div h1) * (b[1] \div h2), (a[2] \div h2) * (b[2] \div h1))
QInv(a) == Norm(a[2], a[1])
QDiv(a, b) == QMul(a, QInv(b))
\* a < b; false when either is NaN
QLt(a, b) ==
  IF IsNaN(a) \/ IsNaN(b) THEN FALSE
  ELSE IF a[2] = 0 /\ b[2] = 0 THEN a[1] < b[1]
  ELSE IF a[2] = 0 \/ b[2] = 0 THEN a[1] * b[2] < b[1] * a[2]
  ELSE LET g == GCD(a[2], b[2]) IN a[1] * (b[2] \div g) < b[1] * (a[2] \div g)
QLe(a, b) == ~IsNaN(a) /\ ~IsNaN(b) /\ ~QLt(b, a)
\* Math.max / Math.min (NaN when an argument is NaN)
QMax(a, b) == IF IsNaN(a) \/ IsNaN(b) THEN NaN ELSE IF QLt(a, b) THEN b ELSE a
QMin(a, b) == IF IsNaN(a) \/ IsNaN(b) THEN NaN ELSE IF QLt(b, a) THEN b ELSE a
QHalf(a) == QDiv(a, Q(2))

\* An id that never names a record of the node list.
DanglingId == MaxNodes

VARIABLES
  graph,        \* renderFromTopology's graph: id -> [children, width (_width, 0 = unset)]
  extraEdge,    \* the node list carries one child id beyond the tree's edges
  lastParent,   \* input generation: parent of the newest record
  rootId,       \* topology.rootId
  lpc,          \* "input" | "width" | "pos" | "done" | "noroot"
  visitedW,     \* calcSubtreeWidth's visited set
  wstack,       \* calcSubtreeWidth activations inside their forEach: [node, i, total]
  visitedP,     \* assignPositions' visited set
  pstack,       \* assignPositions activations inside their forEach: [node, i, childX, y]
  positions,    \* id -> [x, y]
  maxY,
  layout,       \* value returned by calculateTreeLayout: [positions, width, height]
  display,      \* what the page shows: [alert, canvas, container, dropZone]
  firstLayout,  \* value returned by the first call on this graph
  calls,        \* calls of calculateTreeLayout made on this graph
  wEnter,       \* id -> times calcSubtreeWidth got past its visited guard (this call)
  pEnter,       \* id -> times assignPositions got past its visited guard (this call)
  camera,       \* [x, y, zoom]
  viewportState,      \* [isPanning, isSpacePressed, startX, startY,
                      \*  startCameraX, startCameraY, pointerId]
  currentContentSize, \* [width, height]
  rect,         \* planCanvas.getBoundingClientRect(): [left, top, width, height]
  initialized,  \* planCanvas._viewportCleanup is set (listeners attached)
  fitPending,   \* fitToView callbacks scheduled with requestAnimationFrame
  last,         \* the event handled last: [op, key, button, id, x, y, hit]
  steps,        \* events handled so far
  zoomOps,      \* wheel / zoomToCenter calls so far
  currentQuery, \* queryState.js: the current query (NoQuery = null)
  listeners,    \* queryState.js: the listeners array
  nstack,       \* notifyListeners activations: [i, len, q, reg, got, running]
  lastNotify,   \* the notifyListeners activation that returned last
  qOps,         \* queryState calls made so far
  savedTheme,   \* theme.js: localStorage['northstar-theme'] (NoTheme = absent)
  systemDark,   \* matchMedia('(prefers-color-scheme: dark)').matches
  dataTheme,    \* the data-theme attribute of the document element
  themeReady,   \* initTheme has run: the two listeners are attached
  manual,       \* the user chose a theme: saved before initTheme, or toggled
  lastTheme,    \* the theme event handled last
  tSteps,       \* theme events handled so far
  probes,       \* joinParser.js: the HASH_JOIN_PROBE operators found
  builds,       \* joinParser.js: the HASH_JOIN_BUILD operators found
  joins,        \* value returned by combineJoinOperators
  jpc           \* "input" | "done"

layoutVars == <<graph, extraEdge, lastParent, rootId, lpc, visitedW, wstack,
                visitedP, pstack, positions, maxY, layout, display, firstLayout,
                calls, wEnter, pEnter>>

cameraVars == <<camera, viewportState, currentContentSize, rect, initialized,
                fitPending, last, steps, zoomOps>>

queryVars == <<currentQuery, listeners, nstack, lastNotify, qOps>>

themeVars == <<savedTheme, systemDark, dataTheme, themeReady, manual, lastTheme,
               tSteps>>

\* the state of the modules beside the layout and the viewport
joinVars == <<probes, builds, joins, jpc>>

appVars == <<queryVars, themeVars, joinVars>>

vars == <<layoutVars, cameraVars, appVars>>

NoPositions == [i \in {} |-> [x |-> 0, y |-> 0]]
NoLayout == [positions |-> NoPositions, width |-> 0, height |-> 0]
NoCount(g) == [i \in DOMAIN g |-> 0]

\* ------------------------------------------------------------------------
\* Camera model: constants and pure functions
\* ------------------------------------------------------------------------
MIN_ZOOM == <<1, 10>>
MAX_ZOOM == <<6, 1>>
ZOOM_STEP == <<11, 10>>
WHEEL_OUT == <<99, 100>>      \* e.deltaY > 0
WHEEL_IN == <<101, 100>>
PAN_STEP == 80
FIT_PADDING == 40
OVERSCROLL == <<1, 2>>
MINIMAP_WIDTH == 180
MINIMAP_HEIGHT == 120
MINIMAP_INSET == 8
NoPointer == 0                \* pointerId: null

\* the state the module starts with
InitialCamera == [x |-> Q(0), y |-> Q(0), zoom |-> Q(1)]
InitialViewportState ==
  [isPanning |-> FALSE, isSpacePressed |-> FALSE, startX |-> 0, startY |-> 0,
   startCameraX |-> Q(0), startCameraY |-> Q(0), pointerId |-> NoPointer]
NoContent == [width |-> 0, height |-> 0]
NoEvent == [op |-> "none", key |-> "", button |-> 0, id |-> 0, x |-> 0, y |-> 0,
            deltaY |-> 0, hit |-> FALSE]

\* the rendering surface of the model: origin (10, 20), 240 x 180
CanvasRect == [left |-> 10, top |-> 20, width |-> 240, height |-> 180]

\* screenToWorld(screenX, screenY)
ScreenToWorld(cam, r, sx, sy) ==
  [x |-> QAdd(cam.x, QDiv(Q(sx - r.left), cam.zoom)),
   y |-> QAdd(cam.y, QDiv(Q(sy - r.top), cam.zoom))]

\* worldToScreen(worldX, worldY)
\* screenToWorld for a screen point with fractional coordinates
ScreenToWorldAt(cam, r, s) ==
  [x |-> QAdd(cam.x, QDiv(QSub(s.x, Q(r.left)), cam.zoom)),
   y |-> QAdd(cam.y, QDiv(QSub(s.y, Q(r.top)), cam.zoom))]

\* mutant: the surface origin is not added back
WorldToScreenNoOrigin(cam, r, w) ==
  [x |-> QMul(QSub(w.x, cam.x), cam.zoom),
   y |-> QMul(QSub(w.y, cam.y), cam.zoom)]

WorldToScreen(cam, r, w) ==
  [x |-> QAdd(QMul(QSub(w.x, cam.x), cam.zoom), Q(r.left)),
   y |-> QAdd(QMul(QSub(w.y, cam.y), cam.zoom), Q(r.top))]

\* updateTransform: translate(-camera.x * zoom px, -camera.y * zoom px) scale(zoom)
UpdateTransform(cam) ==
  [tx |-> QMul(QNeg(cam.x), cam.zoom),
   ty |-> QMul(QNeg(cam.y), cam.zoom),
   scale |-> cam.zoom]

\* where the zoom container's point w is drawn, relative to the surface's
\* top-left, under "translate(tx, ty) scale(s)" with transform-origin 0 0:
\* the point is scaled, then translated
Drawn(t, w) ==
  [x |-> QAdd(QMul(t.scale, w.x), t.tx),
   y |-> QAdd(QMul(t.scale, w.y), t.ty)]

\* mutant: the zoom is not clamped
ClampZoomMissing(z) == z

\* Math.max(MIN_ZOOM, Math.min(MAX_ZOOM, z))
ClampZoom(z) == QMax(MIN_ZOOM, QMin(MAX_ZOOM, z))

\* mutant: the two factors are swapped
WheelDeltaSwapped(deltaY) == IF deltaY > 0 THEN WHEEL_IN ELSE WHEEL_OUT

\* e.deltaY > 0 ? 0.99 : 1.01
WheelDelta(deltaY) == IF deltaY > 0 THEN WHEEL_OUT ELSE WHEEL_IN

\* mutant: the world point is taken after the zoom has changed
ZoomAroundLate(cam, px, py, zoomDelta) ==
  LET z == ClampZoom(QMul(cam.zoom, zoomDelta))
      worldX == QAdd(cam.x, QDiv(px, z))
      worldY == QAdd(cam.y, QDiv(py, z))
  IN [x |-> QSub(worldX, QDiv(px, cam.zoom)),
      y |-> QSub(worldY, QDiv(py, cam.zoom)),
      zoom |-> z]

\* wheel handler / zoomToCenter: world point under the viewport point (px, py)
\* before the zoom, new zoom, camera moved so that the point stays there
ZoomAround(cam, px, py, zoomDelta) ==
  LET worldX == QAdd(cam.x, QDiv(px, cam.zoom))
      worldY == QAdd(cam.y, QDiv(py, cam.zoom))
      z == ClampZoom(QMul(cam.zoom, zoomDelta))
  IN [x |-> QSub(worldX, QDiv(px, z)),
      y |-> QSub(worldY, QDiv(py, z)),
      zoom |-> z]

\* clampCameraToBounds: the locals
ViewportWidth(cam, r) == QDiv(Q(r.width), cam.zoom)
ViewportHeight(cam, r) == QDiv(Q(r.height), cam.zoom)
MarginX(cam, r, cs) == QMax(Q(0), QHalf(QSub(ViewportWidth(cam, r), Q(cs.width))))
MarginY(cam, r, cs) == QMax(Q(0), QHalf(QSub(ViewportHeight(cam, r), Q(cs.height))))
MinX(cam, r, cs) == QSub(QMul(QNeg(Q(cs.width)), OVERSCROLL), MarginX(cam, r, cs))
\* mutant: the centring margin is left out of the upper bound
MaxXNoMargin(cam, r, cs) ==
  QSub(QMul(Q(cs.width), QAdd(Q(1), OVERSCROLL)), ViewportWidth(cam, r))

MaxX(cam, r, cs) ==
  QAdd(QSub(QMul(Q(cs.width), QAdd(Q(1), OVERSCROLL)), ViewportWidth(cam, r)),
       MarginX(cam, r, cs))
MinY(cam, r, cs) == QSub(QMul(QNeg(Q(cs.height)), OVERSCROLL), MarginY(cam, r, cs))
MaxY(cam, r, cs) ==
  QAdd(QSub(QMul(Q(cs.height), QAdd(Q(1), OVERSCROLL)), ViewportHeight(cam, r)),
       MarginY(cam, r, cs))

\* mutant: the guard for degenerate content is missing
DegenerateIgnored(cs) == FALSE

\* currentContentSize.width === 0 || currentContentSize.height === 0
Degenerate(cs) == cs.width = 0 \/ cs.height = 0

\* mutant: the clamp does nothing
ClampMissing(cam, r, cs) == cam

\* mutant: the camera is pulled half of the way back to the region
ClampElastic(cam, r, cs) ==
  IF Degenerate(cs) THEN cam
  ELSE LET minX == MinX(cam, r, cs)
           maxX == MaxX(cam, r, cs)
           minY == MinY(cam, r, cs)
           maxY_ == MaxY(cam, r, cs)
       IN [x |-> IF QLt(maxX, cam.x) THEN QHalf(QAdd(cam.x, maxX))
                 ELSE IF QLt(cam.x, minX) THEN QHalf(QAdd(cam.x, minX)) ELSE cam.x,
           y |-> IF QLt(maxY_, cam.y) THEN QHalf(QAdd(cam.y, maxY_))
                 ELSE IF QLt(cam.y, minY) THEN QHalf(QAdd(cam.y, minY)) ELSE cam.y,
           zoom |-> cam.zoom]

\* clampCameraToBounds()
ClampCameraToBounds(cam, r, cs) ==
  IF Degenerate(cs) THEN cam
  ELSE LET minX == MinX(cam, r, cs)
           maxX == MaxX(cam, r, cs)
           minY == MinY(cam, r, cs)
           maxY_ == MaxY(cam, r, cs)
       IN [x |-> IF QLt(minX, maxX) THEN QMax(minX, QMin(maxX, cam.x)) ELSE cam.x,
           y |-> IF QLt(minY, maxY_) THEN QMax(minY, QMin(maxY_, cam.y)) ELSE cam.y,
           zoom |-> cam.zoom]

\* mutant: the centring has the wrong sign
FitToViewSignSlip(cam, r, cs) ==
  IF Degenerate(cs) THEN cam
  ELSE LET scaleX == QDiv(Q(r.width - FIT_PADDING * 2), Q(cs.width))
           scaleY == QDiv(Q(r.height - FIT_PADDING * 2), Q(cs.height))
           z == ClampZoom(QMin(QMin(scaleX, scaleY), Q(1)))
       IN [zoom |-> z,
           x |-> QHalf(QSub(QDiv(Q(r.width), z), Q(cs.width))),
           y |-> QHalf(QSub(QDiv(Q(r.height), z), Q(cs.height)))]

\* mutant: the scale is not capped at 100%
FitToViewUncapped(cam, r, cs) ==
  IF Degenerate(cs) THEN cam
  ELSE LET scaleX == QDiv(Q(r.width - FIT_PADDING * 2), Q(cs.width))
           scaleY == QDiv(Q(r.height - FIT_PADDING * 2), Q(cs.height))
           z == ClampZoom(QMin(scaleX, scaleY))
       IN [zoom |-> z,
           x |-> QNeg(QHalf(QSub(QDiv(Q(r.width), z), Q(cs.width)))),
           y |-> QNeg(QHalf(QSub(QDiv(Q(r.height), z), Q(cs.height))))]

\* mutant: the content is put at the top-left corner of the viewport
FitToViewCornered(cam, r, cs) ==
  IF Degenerate(cs) THEN cam
  ELSE LET scaleX == QDiv(Q(r.width - FIT_PADDING * 2), Q(cs.width))
           scaleY == QDiv(Q(r.height - FIT_PADDING * 2), Q(cs.height))
           z == ClampZoom(QMin(QMin(scaleX, scaleY), Q(1)))
       IN [zoom |-> z, x |-> Q(0), y |-> Q(0)]

\* fitToView()
FitToView(cam, r, cs) ==
  IF Degenerate(cs) THEN cam
  ELSE LET scaleX == QDiv(Q(r.width - FIT_PADDING * 2), Q(cs.width))
           scaleY == QDiv(Q(r.height - FIT_PADDING * 2), Q(cs.height))
           scale == QMin(QMin(scaleX, scaleY), Q(1))
           z == ClampZoom(scale)
       IN [zoom |-> z,
           x |-> QNeg(QHalf(QSub(QDiv(Q(r.width), z), Q(cs.width)))),
           y |-> QNeg(QHalf(QSub(QDiv(Q(r.height), z), Q(cs.height))))]

\* zoomToCenter(zoomDelta)
ZoomToCenter(cam, r, cs, zoomDelta) ==
  ClampCameraToBounds(ZoomAround(cam, QHalf(Q(r.width)), QHalf(Q(r.height)), zoomDelta),
                      r, cs)

\* the wheel handler's camera
WheelZoom(cam, r, cs, clientX, clientY, deltaY) ==
  ClampCameraToBounds(ZoomAround(cam, Q(clientX - r.left), Q(clientY - r.top),
                                 WheelDelta(deltaY)), r, cs)

\* panBy(dx, dy)
\* mutant: the step is taken in world units
PanByUnscaled(cam, r, cs, dx, dy) ==
  ClampCameraToBounds([cam EXCEPT !.x = QSub(@, Q(dx)),
                                  !.y = QSub(@, Q(dy))], r, cs)

PanBy(cam, r, cs, dx, dy) ==
  ClampCameraToBounds([cam EXCEPT !.x = QSub(@, QDiv(Q(dx), cam.zoom)),
                                  !.y = QSub(@, QDiv(Q(dy), cam.zoom))], r, cs)

\* mutant: the drag is not scaled by the zoom
DragTargetUnscaled(cam, vs, clientX, clientY) ==
  [cam EXCEPT !.x = QSub(vs.startCameraX, Q(clientX - vs.startX)),
              !.y = QSub(vs.startCameraY, Q(clientY - vs.startY))]

\* mutant: the drag moves the camera from where it is now
DragTargetFromCamera(cam, vs, clientX, clientY) ==
  [cam EXCEPT !.x = QSub(cam.x, QDiv(Q(clientX - vs.startX), cam.zoom)),
              !.y = QSub(cam.y, QDiv(Q(clientY - vs.startY), cam.zoom))]

\* pointermove: camera.x = startCameraX - dx / camera.zoom (and y)
DragTarget(cam, vs, clientX, clientY) ==
  [cam EXCEPT !.x = QSub(vs.startCameraX, QDiv(Q(clientX - vs.startX), cam.zoom)),
              !.y = QSub(vs.startCameraY, QDiv(Q(clientY - vs.startY), cam.zoom))]

\* Home key
\* mutant: the origin is taken without the clamp
HomeCameraUnclamped(cam, r, cs) == [cam EXCEPT !.x = Q(0), !.y = Q(0)]

HomeCamera(cam, r, cs) == ClampCameraToBounds([cam EXCEPT !.x = Q(0), !.y = Q(0)], r, cs)

\* minimap click at minimap-local (mx, my) = (clientX - minimapRect.left, ...)
MinimapScale(cs) ==
  QMin(QDiv(Q(MINIMAP_WIDTH - 2 * MINIMAP_INSET), Q(cs.width)),
       QDiv(Q(MINIMAP_HEIGHT - 2 * MINIMAP_INSET), Q(cs.height)))
\* mutant: the inset of the minimap is not taken off the click point
MinimapWorldNoInset(cs, mx, my) ==
  [x |-> QDiv(Q(mx), MinimapScale(cs)),
   y |-> QDiv(Q(my), MinimapScale(cs))]

MinimapWorld(cs, mx, my) ==
  [x |-> QDiv(Q(mx - MINIMAP_INSET), MinimapScale(cs)),
   y |-> QDiv(Q(my - MINIMAP_INSET), MinimapScale(cs))]
MinimapCamera(cam, r, cs, mx, my) ==
  ClampCameraToBounds(
    [cam EXCEPT !.x = QSub(MinimapWorld(cs, mx, my).x, QHalf(ViewportWidth(cam, r))),
                !.y = QSub(MinimapWorld(cs, mx, my).y, QHalf(ViewportHeight(cam, r)))],
    r, cs)

\* mutant: any primary or secondary button starts a pan
ShouldPanIgnoringSpace(button, isSpacePressed) == button = 0 \/ button = 2

\* (e.button === 0 && viewportState.isSpacePressed) || e.button === 2
ShouldPan(button, isSpacePressed) == (button = 0 /\ isSpacePressed) \/ button = 2

\* the camera state of a module whose viewport was never set up
CameraConstructed ==
  /\ camera = InitialCamera
  /\ viewportState = InitialViewportState
  /\ currentContentSize = NoContent
  /\ rect = CanvasRect
  /\ initialized = FALSE
  /\ fitPending = 0
  /\ last = NoEvent
  /\ steps = 0
  /\ zoomOps = 0

\* ------------------------------------------------------------------------
\* The topology handed to renderFromTopology: an ordered tree of at most
\* MaxNodes records (ids in breadth-first order), optionally with one more
\* child id inserted anywhere (an existing id: cycle, self-loop, shared or
\* repeated child; or an id without record: dangling).
\* ------------------------------------------------------------------------
NewNode == [children |-> <<>>, width |-> 0]

InsertAt(s, p, e) == SubSeq(s, 1, p - 1) \o <<e>> \o SubSeq(s, p, Len(s))

AddRecord(p) ==
  /\ lpc = "input"
  /\ ~extraEdge
  /\ Cardinality(DOMAIN graph) < MaxNodes
  /\ LET n == Cardinality(DOMAIN graph) IN
       /\ IF n = 0 THEN p = 0 ELSE (p \in DOMAIN graph /\ p >= lastParent)
       /\ graph' = [i \in 0..n |->
                      IF i = n THEN NewNode
                      ELSE IF i = p THEN [graph[i] EXCEPT !.children = Append(@, n)]
                      ELSE graph[i]]
       /\ lastParent' = p
  /\ UNCHANGED <<extraEdge, rootId, lpc, visitedW, wstack, visitedP, pstack,
                 positions, maxY, layout, firstLayout, calls, wEnter, pEnter>>
  /\ UNCHANGED <<display, cameraVars, appVars>>

AddChildId(n, p, e) ==
  /\ lpc = "input"
  /\ ~extraEdge
  /\ n \in DOMAIN graph
  /\ p \in 1..(Len(graph[n].children) + 1)
  /\ e \in DOMAIN graph \cup {DanglingId}
  /\ graph' = [graph EXCEPT ![n].children = InsertAt(@, p, e)]
  /\ extraEdge' = TRUE
  /\ UNCHANGED <<lastParent, rootId, lpc, visitedW, wstack, visitedP, pstack,
                 positions, maxY, layout, firstLayout, calls, wEnter, pEnter>>
  /\ UNCHANGED <<display, cameraVars, appVars>>

\* ------------------------------------------------------------------------
\* calculateTreeLayout, first pass: calcSubtreeWidth
\* ------------------------------------------------------------------------
\* mutant: the id is tested for truthiness instead of the record
ResolvesTruthyId(g, id) == id \in DOMAIN g /\ id # 0

\* graph[childId] is truthy
Resolves(g, id) == id \in DOMAIN g

\* mutant: the cycle guard is missing
NeverVisited(visited, id) == FALSE

\* visited.has(node.id)
AlreadyVisited(visited, id) == id \in visited

\* !node.children || node.children.length === 0
IsLeaf(g, id) == Len(g[id].children) = 0

\* if (i < node.children.length - 1) totalWidth += HORIZONTAL_SPACING
\* (i is the 1-based index of the child just added)
SpacingAfter(g, node, i) ==
  IF i < Len(g[node].children) THEN HORIZONTAL_SPACING ELSE 0

\* node._width = Math.max(NODE_WIDTH, totalWidth)
SubtreeWidth(total) == Max(NODE_WIDTH, total)

\* child._width || NODE_WIDTH
WidthOr(g, id) == IF g[id].width # 0 THEN g[id].width ELSE NODE_WIDTH

\* mutant: a visited node answers with its cached _width
VisitedWidthCached(g, id) == WidthOr(g, id)

\* if (visited.has(node.id)) return NODE_WIDTH; // Prevent cycles
VisitedWidth(g, id) == NODE_WIDTH

\* the engine's call stack, scaled to the model: an acyclic descent never needs
\* more than one activation per record; a deeper recursion does not return
StackLimit == MaxNodes + 1


Top(s) == s[Len(s)]
Pop(s) == SubSeq(s, 1, Len(s) - 1)
ReplaceTop(s, f) == [s EXCEPT ![Len(s)] = f]

\* the roots renderFromTopology is asked for: the first record, the second
\* record (then the first is reachable over a back edge only), no record
RootChoices == {0, 1, DanglingId}

\* calcSubtreeWidth(child, visited) as called from the forEach of frame f, for a
\* child that is already visited or a leaf: it returns NODE_WIDTH at once.
WidthFrameAfter(f, ret) ==
  [f EXCEPT !.total = @ + ret + SpacingAfter(graph, f.node, f.i), !.i = @ + 1]

\* calculateTreeLayout(root, graph) up to the first forEach of calcSubtreeWidth(root)
BeginWidthPass(r) ==
  /\ visitedW' = {r}
  /\ wEnter' = [NoCount(graph) EXCEPT ![r] = 1]
  /\ pEnter' = NoCount(graph)
  /\ IF IsLeaf(graph, r)
       THEN /\ graph' = [graph EXCEPT ![r].width = NODE_WIDTH]
            /\ wstack' = <<>>
            /\ lpc' = "widthDone"
       ELSE /\ graph' = graph
            /\ wstack' = <<[node |-> r, i |-> 1, total |-> 0]>>
            /\ lpc' = "width"
  /\ visitedP' = {}
  /\ pstack' = <<>>
  /\ positions' = NoPositions
  /\ maxY' = 0
  /\ layout' = NoLayout

\* what the page shows before a plan is loaded: the drop zone, an empty
\* canvas in a hidden plan container, no alert
RootNotFoundMessage == "Could not find root node in topology"
NoOperatorsMessage == "No operators found to visualize"
InitialDisplay == [alert |-> "", canvas |-> "", container |-> FALSE, dropZone |-> TRUE]

\* mutant: the plan container is revealed before the root is looked up
RootNotFoundRevealsPlan(d) ==
  [d EXCEPT !.alert = RootNotFoundMessage, !.container = TRUE, !.dropZone = FALSE]

\* alert('Could not find root node in topology'); return
RootNotFound(d) == [d EXCEPT !.alert = RootNotFoundMessage]

\* renderTreeWithSVG(layout, graph): the message for an empty layout, or the
\* tree
RenderTreeWithSVG(d, pos) ==
  IF DOMAIN pos = {} THEN [d EXCEPT !.canvas = NoOperatorsMessage]
  ELSE [d EXCEPT !.canvas = "tree"]

\* planDropZone.style.display = 'none'; planContainer.style.display = 'block'
ShowPlan(d) == [d EXCEPT !.container = TRUE, !.dropZone = FALSE]

\* renderFromTopology after calculateTreeLayout has returned (a repeated
\* calculateTreeLayout renders nothing)
AfterLayout(d, pos) == IF calls = 1 THEN ShowPlan(RenderTreeWithSVG(d, pos)) ELSE d

\* renderFromTopology(topology): root lookup, then the layout is calculated
renderFromTopology(r) ==
  /\ lpc = "input"
  /\ r \in RootChoices
  /\ rootId' = r
  /\ calls' = IF Resolves(graph, r) THEN 1 ELSE 0
  /\ IF Resolves(graph, r)
       THEN /\ BeginWidthPass(r)
            /\ display' = display
       ELSE /\ lpc' = "noroot"
            /\ display' = RootNotFound(display)
            /\ UNCHANGED <<graph, visitedW, wstack, visitedP, pstack, positions,
                           maxY, layout, wEnter, pEnter>>
  /\ UNCHANGED <<extraEdge, lastParent, firstLayout>>
  /\ UNCHANGED <<cameraVars, appVars>>

\* calculateTreeLayout called again on the same root and graph (the nodes
\* carry the _width of the previous call)
calculateTreeLayoutAgain ==
  /\ lpc = "done"
  /\ calls < MaxCalls
  /\ calls' = calls + 1
  /\ firstLayout' = IF calls = 1 THEN layout ELSE firstLayout
  /\ BeginWidthPass(rootId)
  /\ UNCHANGED <<extraEdge, lastParent, rootId>>
  /\ UNCHANGED <<display, cameraVars, appVars>>

\* one iteration of node.children.forEach in calcSubtreeWidth
calcSubtreeWidthChild ==
  /\ lpc = "width"
  /\ LET f == Top(wstack)
         kids == graph[f.node].children
     IN /\ f.i <= Len(kids)
        /\ LET childId == kids[f.i] IN
             IF ~Resolves(graph, childId)
               THEN /\ wstack' = ReplaceTop(wstack, [f EXCEPT !.i = @ + 1])
                    /\ UNCHANGED <<graph, visitedW, wEnter>>
             ELSE IF AlreadyVisited(visitedW, childId)
               THEN /\ wstack' = ReplaceTop(wstack,
                                      WidthFrameAfter(f, VisitedWidth(graph, childId)))
                    /\ UNCHANGED <<graph, visitedW, wEnter>>
             ELSE /\ visitedW' = visitedW \cup {childId}
                  /\ wEnter' = [wEnter EXCEPT ![childId] = @ + 1]
                  /\ IF IsLeaf(graph, childId)
                       THEN /\ graph' = [graph EXCEPT ![childId].width = NODE_WIDTH]
                            /\ wstack' = ReplaceTop(wstack, WidthFrameAfter(f, NODE_WIDTH))
                       ELSE /\ Len(wstack) < StackLimit
                            /\ graph' = graph
                            /\ wstack' = Append(wstack,
                                           [node |-> childId, i |-> 1, total |-> 0])
  /\ UNCHANGED <<extraEdge, lastParent, rootId, lpc, visitedP, pstack, positions,
                 maxY, layout, firstLayout, calls, pEnter>>
  /\ UNCHANGED <<display, cameraVars, appVars>>

\* the forEach of the innermost calcSubtreeWidth is over: it stores and returns
\* node._width, which its caller adds to its totalWidth
calcSubtreeWidthReturn ==
  /\ lpc = "width"
  /\ LET f == Top(wstack)
         w == SubtreeWidth(f.total)
         rest == Pop(wstack)
     IN /\ f.i > Len(graph[f.node].children)
        /\ graph' = [graph EXCEPT ![f.node].width = w]
        /\ IF rest = <<>>
             THEN /\ wstack' = <<>>
                  /\ lpc' = "widthDone"
             ELSE /\ wstack' = ReplaceTop(rest, WidthFrameAfter(Top(rest), w))
                  /\ lpc' = lpc
  /\ UNCHANGED <<extraEdge, lastParent, rootId, visitedW, visitedP, pstack,
                 positions, maxY, layout, firstLayout, calls, wEnter, pEnter>>
  /\ UNCHANGED <<display, cameraVars, appVars>>

\* ------------------------------------------------------------------------
\* calculateTreeLayout, second pass: assignPositions
\* ------------------------------------------------------------------------
\* mutant: the node is put at the left edge of its subtree
NodeXLeft(x, w) == x

\* x: x + (node._width - NODE_WIDTH) / 2   (every _width is even)
NodeX(x, w) == x + (w - NODE_WIDTH) \div 2

\* y + NODE_HEIGHT + VERTICAL_SPACING
ChildY(y) == y + NODE_HEIGHT + VERTICAL_SPACING

\* childX += (child._width || NODE_WIDTH) + HORIZONTAL_SPACING
PosFrameAfter(f, childId) ==
  [f EXCEPT !.childX = @ + WidthOr(graph, childId) + HORIZONTAL_SPACING, !.i = @ + 1]

\* return { positions, width: root._width, height: maxY + NODE_HEIGHT, root }
LayoutResult(pos, my) ==
  [positions |-> pos, width |-> graph[rootId].width, height |-> my + NODE_HEIGHT]

\* calcSubtreeWidth(root) has returned: assignPositions(root, 0, 0) is entered
assignPositionsRoot ==
  /\ lpc = "widthDone"
  /\ LET pos == (rootId :> [x |-> NodeX(0, graph[rootId].width), y |-> 0])
         my == Max(maxY, 0)
     IN /\ visitedP' = {rootId}
        /\ pEnter' = [pEnter EXCEPT ![rootId] = @ + 1]
        /\ positions' = pos
        /\ maxY' = my
        /\ IF IsLeaf(graph, rootId)
             THEN /\ pstack' = <<>>
                  /\ layout' = LayoutResult(pos, my)
                  /\ display' = AfterLayout(display, pos)
                  /\ lpc' = "done"
             ELSE /\ pstack' = <<[node |-> rootId, i |-> 1, childX |-> 0, y |-> 0]>>
                  /\ layout' = layout
                  /\ display' = display
                  /\ lpc' = "pos"
  /\ UNCHANGED <<graph, extraEdge, lastParent, rootId, visitedW, wstack,
                 firstLayout, calls, wEnter>>
  /\ UNCHANGED <<cameraVars, appVars>>

\* one iteration of node.children.forEach in assignPositions
assignPositionsChild ==
  /\ lpc = "pos"
  /\ LET f == Top(pstack)
         kids == graph[f.node].children
     IN /\ f.i <= Len(kids)
        /\ LET childId == kids[f.i] IN
             IF ~Resolves(graph, childId)
               THEN /\ pstack' = ReplaceTop(pstack, [f EXCEPT !.i = @ + 1])
                    /\ UNCHANGED <<visitedP, positions, maxY, pEnter>>
             ELSE IF AlreadyVisited(visitedP, childId)
               THEN /\ pstack' = ReplaceTop(pstack, PosFrameAfter(f, childId))
                    /\ UNCHANGED <<visitedP, positions, maxY, pEnter>>
             ELSE LET y == ChildY(f.y) IN
                  /\ visitedP' = visitedP \cup {childId}
                  /\ pEnter' = [pEnter EXCEPT ![childId] = @ + 1]
                  /\ positions' = (childId :> [x |-> NodeX(f.childX, graph[childId].width),
                                               y |-> y]) @@ positions
                  /\ maxY' = Max(maxY, y)
                  /\ IF IsLeaf(graph, childId)
                       THEN pstack' = ReplaceTop(pstack, PosFrameAfter(f, childId))
                       ELSE /\ Len(pstack) < StackLimit
                            /\ pstack' = Append(pstack, [node |-> childId, i |-> 1,
                                                         childX |-> f.childX, y |-> y])
  /\ UNCHANGED <<graph, extraEdge, lastParent, rootId, lpc, visitedW, wstack,
                 layout, firstLayout, calls, wEnter>>
  /\ UNCHANGED <<display, cameraVars, appVars>>

\* the forEach of the innermost assignPositions is over: it returns and its
\* caller advances childX; when the root's returns, the layout is returned
assignPositionsReturn ==
  /\ lpc = "pos"
  /\ LET f == Top(pstack)
         rest == Pop(pstack)
     IN /\ f.i > Len(graph[f.node].children)
        /\ IF rest = <<>>
             THEN /\ pstack' = <<>>
                  /\ layout' = LayoutResult(positions, maxY)
                  /\ display' = AfterLayout(display, positions)
                  /\ lpc' = "done"
             ELSE /\ pstack' = ReplaceTop(rest, PosFrameAfter(Top(rest), f.node))
                  /\ layout' = layout
                  /\ display' = display
                  /\ lpc' = lpc
  /\ UNCHANGED <<graph, extraEdge, lastParent, rootId, visitedW, wstack, visitedP,
                 positions, maxY, firstLayout, calls, wEnter, pEnter>>
  /\ UNCHANGED <<cameraVars, appVars>>

\* ------------------------------------------------------------------------
\* queryState.js: the query and its listeners
\* ------------------------------------------------------------------------
NoQuery == 0        \* currentQuery: null
NoListener == 0     \* no callback is running in the activation

MaxListeners == 3     \* entries of the listeners array
MaxQueryOps == 5      \* addListener, removeListener, setQuery, clearQuery calls
MaxNotifyDepth == 2   \* notifyListeners activations inside one another

ListenerIds == {1, 2}
Queries == {1, 2}

\* notifyListeners() is entered by a call that assigned q, with the array as
\* it is now: forEach fixes its range to the length at entry.
\* reg, got and errors record the array at the call, the callbacks invoked
\* with their argument, and the console.error calls of the catch.
NewNotify(q, ls) ==
  [i |-> 1, len |-> Len(ls), q |-> q, reg |-> ls, got |-> <<>>,
   running |-> NoListener, errors |-> 0]

\* listeners.indexOf(callback), 1-based; 0 when absent
IndexOf(ls, l) ==
  IF \E k \in 1..Len(ls) : ls[k] = l
    THEN CHOOSE k \in 1..Len(ls) : ls[k] = l /\ \A j \in 1..(k - 1) : ls[j] # l
    ELSE 0

\* listeners.splice(index, 1)
Splice(ls, k) == SubSeq(ls, 1, k - 1) \o SubSeq(ls, k + 1, Len(ls))

\* code of the application or of a listener is running and may call the module
CanCall ==
  /\ qOps < MaxQueryOps
  /\ IF nstack = <<>> THEN TRUE ELSE Top(nstack).running # NoListener

Called ==
  /\ qOps' = qOps + 1
  /\ UNCHANGED <<layoutVars, cameraVars, themeVars, joinVars>>

\* addListener(callback)
addListener(l) ==
  /\ CanCall
  /\ Len(listeners) < MaxListeners
  /\ listeners' = Append(listeners, l)
  /\ Called
  /\ UNCHANGED <<currentQuery, nstack, lastNotify>>

\* removeListener(callback)
removeListener(l) ==
  /\ CanCall
  /\ listeners' = IF IndexOf(listeners, l) > 0
                    THEN Splice(listeners, IndexOf(listeners, l))
                    ELSE listeners
  /\ Called
  /\ UNCHANGED <<currentQuery, nstack, lastNotify>>

\* setQuery(queryJson), up to the forEach of notifyListeners
setQuery(q) ==
  /\ CanCall
  /\ Len(nstack) < MaxNotifyDepth
  /\ currentQuery' = q
  /\ nstack' = Append(nstack, NewNotify(q, listeners))
  /\ Called
  /\ UNCHANGED <<listeners, lastNotify>>

\* clearQuery(), up to the forEach of notifyListeners
clearQuery ==
  /\ CanCall
  /\ Len(nstack) < MaxNotifyDepth
  /\ currentQuery' = NoQuery
  /\ nstack' = Append(nstack, NewNotify(NoQuery, listeners))
  /\ Called
  /\ UNCHANGED <<listeners, lastNotify>>

\* one iteration of listeners.forEach: the element at index i, if the array
\* still has one, is called with currentQuery
notifyNext ==
  /\ nstack # <<>>
  /\ LET f == Top(nstack) IN
       /\ f.running = NoListener
       /\ f.i <= f.len
       /\ nstack' = ReplaceTop(nstack,
            IF f.i <= Len(listeners)
              THEN [f EXCEPT !.running = listeners[f.i],
                             !.got = Append(@, <<listeners[f.i], currentQuery>>)]
              ELSE [f EXCEPT !.i = @ + 1])
  /\ UNCHANGED <<currentQuery, listeners, lastNotify, qOps>>
  /\ UNCHANGED <<layoutVars, cameraVars, themeVars, joinVars>>

\* the callback returns
listenerReturns ==
  /\ nstack # <<>>
  /\ Top(nstack).running # NoListener
  /\ nstack' = ReplaceTop(nstack, [Top(nstack) EXCEPT !.running = NoListener,
                                                      !.i = @ + 1])
  /\ UNCHANGED <<currentQuery, listeners, lastNotify, qOps>>
  /\ UNCHANGED <<layoutVars, cameraVars, themeVars, joinVars>>

\* the callback throws: catch (error) { console.error(...) }
listenerThrows ==
  /\ nstack # <<>>
  /\ Top(nstack).running # NoListener
  /\ nstack' = ReplaceTop(nstack, [Top(nstack) EXCEPT !.running = NoListener,
                                                      !.i = @ + 1,
                                                      !.errors = @ + 1])
  /\ UNCHANGED <<currentQuery, listeners, lastNotify, qOps>>
  /\ UNCHANGED <<layoutVars, cameraVars, themeVars, joinVars>>

\* forEach is over: notifyListeners and the call that made it return
notifyReturns ==
  /\ nstack # <<>>
  /\ Top(nstack).running = NoListener
  /\ Top(nstack).i > Top(nstack).len
  /\ nstack' = Pop(nstack)
  /\ lastNotify' = Top(nstack)
  /\ UNCHANGED <<currentQuery, listeners, qOps>>
  /\ UNCHANGED <<layoutVars, cameraVars, themeVars, joinVars>>

NextQuery ==
  \/ \E l \in ListenerIds : addListener(l)
  \/ \E l \in ListenerIds : removeListener(l)
  \/ \E q \in Queries : setQuery(q)
  \/ clearQuery
  \/ notifyNext
  \/ listenerReturns
  \/ listenerThrows
  \/ notifyReturns

\* let currentQuery = null; const listeners = [];
QueryConstructed ==
  /\ currentQuery = NoQuery
  /\ listeners = <<>>
  /\ nstack = <<>>
  /\ lastNotify = NewNotify(NoQuery, <<>>)
  /\ qOps = 0

\* ------------------------------------------------------------------------
\* theme.js: dark / light theme
\* ------------------------------------------------------------------------
MaxThemeSteps == 6    \* theme events handled in one behaviour

DARK == "dark"
LIGHT == "light"
NoTheme == ""         \* getItem / getAttribute give null

\* systemPrefersDark ? DARK : LIGHT
SystemTheme(dark) == IF dark THEN DARK ELSE LIGHT

\* saved || (systemPrefersDark ? DARK : LIGHT)
InitialTheme(saved, dark) == IF saved # NoTheme THEN saved ELSE SystemTheme(dark)

\* toggleTheme: current === DARK ? LIGHT : DARK, current || DARK
ToggledTheme(current) ==
  IF (IF current # NoTheme THEN current ELSE DARK) = DARK THEN LIGHT ELSE DARK

\* setTheme(theme): the attribute is set and the theme is stored
setTheme(theme) ==
  /\ dataTheme' = theme
  /\ savedTheme' = theme

ThemeHandled(op) ==
  /\ tSteps < MaxThemeSteps
  /\ tSteps' = tSteps + 1
  /\ lastTheme' = op
  /\ UNCHANGED <<layoutVars, cameraVars, queryVars, joinVars>>

\* initTheme()
initTheme ==
  /\ ~themeReady
  /\ ThemeHandled("initTheme")
  /\ setTheme(InitialTheme(savedTheme, systemDark))
  /\ themeReady' = TRUE
  /\ manual' = (savedTheme # NoTheme)
  /\ UNCHANGED systemDark

\* click on #themeToggle
toggleTheme ==
  /\ themeReady
  /\ ThemeHandled("toggleTheme")
  /\ setTheme(ToggledTheme(dataTheme))
  /\ manual' = TRUE
  /\ UNCHANGED <<systemDark, themeReady>>

\* the system colour scheme changes; after initTheme the 'change' listener
\* runs: if (!localStorage.getItem(STORAGE_KEY)) setTheme(e.matches ? DARK : LIGHT)
systemChange ==
  /\ ThemeHandled("systemChange")
  /\ systemDark' = ~systemDark
  /\ IF themeReady /\ savedTheme = NoTheme
       THEN setTheme(SystemTheme(systemDark'))
       ELSE UNCHANGED <<dataTheme, savedTheme>>
  /\ UNCHANGED <<themeReady, manual>>

NextTheme ==
  \/ initTheme
  \/ toggleTheme
  \/ systemChange

\* the page as loaded on a first visit: nothing stored, no attribute
ThemeConstructed ==
  /\ savedTheme = NoTheme
  /\ systemDark = FALSE
  /\ dataTheme = NoTheme
  /\ themeReady = FALSE
  /\ manual = FALSE
  /\ lastTheme = "none"
  /\ tSteps = 0

\* the page as loaded on any visit: a theme may be stored from an earlier one
ThemeLoaded ==
  /\ savedTheme \in {NoTheme, DARK, LIGHT}
  /\ systemDark \in BOOLEAN
  /\ dataTheme = NoTheme
  /\ themeReady = FALSE
  /\ manual = FALSE
  /\ lastTheme = "none"
  /\ tSteps = 0

\* ------------------------------------------------------------------------
\* joinParser.js: combineJoinOperators
\* ------------------------------------------------------------------------
MaxProbes == 2        \* operators in probes
MaxBuilds == 2        \* operators in builds

\* planNodeId as findHashJoins extracts it: the digits of plan_node_id=(\d+),
\* or 'unknown'; a string is the sequence of its characters
Unknown == <<"u", "n", "k", "n", "o", "w", "n">>
PlanNodeIds == {<<"1">>, <<"2">>, <<"0", "2">>, <<"1", "0">>, Unknown}
FragmentIds == {<<"0">>, <<"1">>}
NoOperator == [planNodeId |-> <<>>, fragmentId |-> <<>>, operatorName |-> <<>>]

IsDigit(c) == c \in {"0", "1", "2", "3", "4", "5", "6", "7", "8", "9"}
DigitValue(c) ==
  CASE c = "0" -> 0 [] c = "1" -> 1 [] c = "2" -> 2 [] c = "3" -> 3 [] c = "4" -> 4
    [] c = "5" -> 5 [] c = "6" -> 6 [] c = "7" -> 7 [] c = "8" -> 8 [] c = "9" -> 9

\* parseInt(s): the value of the leading digits, NaN when there is none
RECURSIVE ParseDigits(_, _, _)
ParseDigits(str, k, acc) ==
  IF k > Len(str) \/ ~IsDigit(str[k]) THEN acc
  ELSE ParseDigits(str, k + 1, 10 * acc + DigitValue(str[k]))

ParseInt(str) ==
  IF str = <<>> \/ ~IsDigit(str[1]) THEN NaN ELSE Q(ParseDigits(str, 1, 0))

\* the comparator (a, b) => parseInt(a.planNodeId) - parseInt(b.planNodeId),
\* as sort reads it: a NaN result counts as +0
Compare(a, b) ==
  LET v == QSub(ParseInt(a.planNodeId), ParseInt(b.planNodeId))
  IN IF IsNaN(v) THEN 0 ELSE Sgn(v[1])

\* joinMap.has(id): the place of the record of id among the map's values
PlaceInMap(map, id) ==
  IF \E k \in 1..Len(map) : map[k].planNodeId = id
    THEN CHOOSE k \in 1..Len(map) : map[k].planNodeId = id
    ELSE 0

\* if (!joinMap.has(op.planNodeId)) joinMap.set(...); the record of op
WithRecord(map, op) ==
  IF PlaceInMap(map, op.planNodeId) > 0 THEN map
  ELSE Append(map, [planNodeId |-> op.planNodeId, fragmentId |-> op.fragmentId,
                    probe |-> NoOperator, build |-> NoOperator])

\* for (const probe of probes) { ...; joinMap.get(probe.planNodeId).probe = probe }
RECURSIVE AddProbes(_, _, _)
AddProbes(map, ops, k) ==
  IF k > Len(ops) THEN map
  ELSE LET m == WithRecord(map, ops[k])
       IN AddProbes([m EXCEPT ![PlaceInMap(m, ops[k].planNodeId)].probe = ops[k]],
                    ops, k + 1)

\* for (const build of builds) { ...; joinMap.get(build.planNodeId).build = build }
RECURSIVE AddBuilds(_, _, _)
AddBuilds(map, ops, k) ==
  IF k > Len(ops) THEN map
  ELSE LET m == WithRecord(map, ops[k])
       IN AddBuilds([m EXCEPT ![PlaceInMap(m, ops[k].planNodeId)].build = ops[k]],
                    ops, k + 1)

\* Array.from(joinMap.values()): the records in insertion order
JoinMapValues(ps, bs) == AddBuilds(AddProbes(<<>>, ps, 1), bs, 1)

\* the comparator orders the records consistently: being equal under it is
\* transitive (it is not when a NaN id sits between two different numbers)
ConsistentOn(recs) ==
  \A i, j, k \in 1..Len(recs) :
    (Compare(recs[i], recs[j]) = 0 /\ Compare(recs[j], recs[k]) = 0)
      => Compare(recs[i], recs[k]) = 0

\* r put behind every record that does not come after it
RECURSIVE InsertSorted(_, _, _)
InsertSorted(sorted, r, k) ==
  IF k > Len(sorted) THEN Append(sorted, r)
  ELSE IF Compare(r, sorted[k]) < 0 THEN InsertAt(sorted, k, r)
  ELSE InsertSorted(sorted, r, k + 1)

RECURSIVE StableSort(_, _, _)
StableSort(recs, k, sorted) ==
  IF k > Len(recs) THEN sorted
  ELSE StableSort(recs, k + 1, InsertSorted(sorted, recs[k], 1))

\* Array.prototype.sort: the stable order under a consistent comparator; the
\* order is implementation-defined, any arrangement, under an inconsistent one
SortOutcomes(recs) ==
  IF ConsistentOn(recs) THEN {StableSort(recs, 1, <<>>)}
  ELSE {[i \in 1..Len(recs) |-> recs[p[i]]] : p \in Permutations(1..Len(recs))}

JoinHandled == UNCHANGED <<layoutVars, cameraVars, queryVars, themeVars>>

\* findHashJoins: probes.push({ planNodeId, operatorName, fragmentId, ... })
pushProbe(id, frag) ==
  /\ jpc = "input"
  /\ Len(probes) < MaxProbes
  /\ probes' = Append(probes, [planNodeId |-> id, fragmentId |-> frag,
                               operatorName |-> <<"HASH_JOIN_PROBE", Len(probes) + 1>>])
  /\ UNCHANGED <<builds, joins, jpc>>
  /\ JoinHandled

\* findHashJoins: builds.push({ planNodeId, operatorName, fragmentId, ... })
pushBuild(id, frag) ==
  /\ jpc = "input"
  /\ Len(builds) < MaxBuilds
  /\ builds' = Append(builds, [planNodeId |-> id, fragmentId |-> frag,
                               operatorName |-> <<"HASH_JOIN_BUILD", Len(builds) + 1>>])
  /\ UNCHANGED <<probes, joins, jpc>>
  /\ JoinHandled

\* combineJoinOperators(probes, builds)
combineJoinOperators ==
  /\ jpc = "input"
  /\ joins' \in SortOutcomes(JoinMapValues(probes, builds))
  /\ jpc' = "done"
  /\ UNCHANGED <<probes, builds>>
  /\ JoinHandled

NextJoins ==
  \/ \E id \in PlanNodeIds, frag \in FragmentIds : pushProbe(id, frag)
  \/ \E id \in PlanNodeIds, frag \in FragmentIds : pushBuild(id, frag)
  \/ combineJoinOperators

\* no operator was found yet
JoinConstructed ==
  /\ probes = <<>>
  /\ builds = <<>>
  /\ joins = <<>>
  /\ jpc = "input"

\* the modules beside the layout and the viewport, as loaded
AppConstructed == QueryConstructed /\ ThemeConstructed /\ JoinConstructed

\* ------------------------------------------------------------------------
\* Specification of the layout
\* ------------------------------------------------------------------------
\* no topology has been handed over yet
LayoutConstructed ==
  /\ graph = [i \in {} |-> NewNode]
  /\ extraEdge = FALSE
  /\ lastParent = 0
  /\ rootId = 0
  /\ lpc = "input"
  /\ visitedW = {}
  /\ wstack = <<>>
  /\ visitedP = {}
  /\ pstack = <<>>
  /\ positions = NoPositions
  /\ maxY = 0
  /\ layout = NoLayout
  /\ display = InitialDisplay
  /\ firstLayout = NoLayout
  /\ calls = 0
  /\ wEnter = [i \in {} |-> 0]
  /\ pEnter = [i \in {} |-> 0]

InitLayout == LayoutConstructed /\ CameraConstructed /\ AppConstructed

NextLayout ==
  \/ \E p \in 0..(MaxNodes - 1) : AddRecord(p)
  \/ \E n \in 0..(MaxNodes - 1), p \in 1..MaxNodes, e \in 0..MaxNodes : AddChildId(n, p, e)
  \/ \E r \in RootChoices : renderFromTopology(r)
  \/ calcSubtreeWidthChild
  \/ calcSubtreeWidthReturn
  \/ assignPositionsRoot
  \/ assignPositionsChild
  \/ assignPositionsReturn
  \/ calculateTreeLayoutAgain

SpecLayout == InitLayout /\ [][NextLayout]_vars

\* calculateTreeLayout runs synchronously to completion once it is called
LayoutStep ==
  \/ calcSubtreeWidthChild
  \/ calcSubtreeWidthReturn
  \/ assignPositionsRoot
  \/ assignPositionsChild
  \/ assignPositionsReturn

SpecLayoutFair == SpecLayout /\ WF_vars(LayoutStep)

\* ------------------------------------------------------------------------
\* The viewport: events and their handlers
\* ------------------------------------------------------------------------
MaxSteps == 4       \* events handled in one behaviour
MaxZoomOps == 1     \* wheel / zoomToCenter calls in one behaviour

\* content sizes a render can leave: nothing to show; one node; a root over
\* three leaves; a root over ten leaves; a root over fifteen leaves
ContentSizes ==
  {NoContent, [width |-> 140, height |-> 50], [width |-> 480, height |-> 170],
   [width |-> 1670, height |-> 170], [width |-> 2520, height |-> 170]}
PointerPositions == {<<100, 100>>, <<150, 130>>}
PointerIds == {1, 2}
Buttons == {0, 1, 2}
\* the viewport centre and another point
WheelPositions == {<<130, 110>>, <<100, 100>>}
WheelDeltas == {-1, 1}
Keys == {"+", "-", "0", "Home", "ArrowLeft", "ArrowRight", "ArrowUp", "ArrowDown"}
\* minimap-local click points: the world origin and the middle of the minimap
MinimapPoints == {<<8, 8>>, <<90, 60>>}

Ev(op, key, button, id, x, y, hit) ==
  [op |-> op, key |-> key, button |-> button, id |-> id, x |-> x, y |-> y,
   deltaY |-> 0, hit |-> hit]

\* a callback the browser runs whether or not more events arrive
Ran(ev) ==
  /\ steps' = steps + 1
  /\ last' = ev
  /\ UNCHANGED <<rect, layoutVars, appVars>>

Handled(ev) ==
  /\ steps < MaxSteps
  /\ Ran(ev)

\* mutant: no fit is scheduled for a viewport that was not set up
FitNeverScheduled(wasInitialized, pending) == pending

\* the else branch of recalculateLayout: requestAnimationFrame(() =>
\* requestAnimationFrame(() => fitToView()))
FitScheduled(wasInitialized, pending) ==
  IF wasInitialized THEN pending ELSE pending + 1

\* recalculateLayout(): the graph is rendered again (the content size is
\* updated), then the camera is restored or a fitToView is scheduled
recalculateLayout(cs) ==
  /\ Handled(Ev("recalculateLayout", "", 0, 0, cs.width, cs.height, initialized))
  /\ currentContentSize' = cs
  /\ camera' = camera
  /\ initialized' = TRUE
  /\ fitPending' = FitScheduled(initialized, fitPending)
  /\ UNCHANGED <<viewportState, zoomOps>>

\* requestAnimationFrame(() => requestAnimationFrame(() => fitToView()))
fitToViewFrame ==
  /\ fitPending > 0
  /\ Ran(Ev("fitToViewFrame", "", 0, 0, 0, 0, ~Degenerate(currentContentSize)))
  /\ fitPending' = fitPending - 1
  /\ camera' = FitToView(camera, rect, currentContentSize)
  /\ UNCHANGED <<viewportState, currentContentSize, initialized, zoomOps>>

\* cleanupViewport()
\* mutant: the Space flag survives the reset
cleanupViewportKeepsSpace ==
  /\ Handled(Ev("cleanupViewport", "", 0, 0, 0, 0, initialized))
  /\ initialized' = FALSE
  /\ viewportState' = [viewportState EXCEPT !.isPanning = FALSE,
                                            !.pointerId = NoPointer]
  /\ UNCHANGED <<camera, currentContentSize, fitPending, zoomOps>>

cleanupViewport ==
  /\ Handled(Ev("cleanupViewport", "", 0, 0, 0, 0, initialized))
  /\ initialized' = FALSE
  /\ viewportState' = [viewportState EXCEPT !.isPanning = FALSE,
                                            !.isSpacePressed = FALSE,
                                            !.pointerId = NoPointer]
  /\ UNCHANGED <<camera, currentContentSize, fitPending, zoomOps>>

\* planCanvas 'wheel'
wheel(clientX, clientY, deltaY) ==
  /\ initialized
  /\ zoomOps < MaxZoomOps
  /\ Handled([Ev("wheel", "", 0, 0, clientX, clientY, TRUE) EXCEPT !.deltaY = deltaY])
  /\ zoomOps' = zoomOps + 1
  /\ camera' = WheelZoom(camera, rect, currentContentSize, clientX, clientY, deltaY)
  /\ UNCHANGED <<viewportState, currentContentSize, initialized, fitPending>>

\* window 'keydown', e.code === 'Space'
keydownSpace ==
  /\ initialized
  /\ Handled(Ev("keydown", "Space", 0, 0, 0, 0, ~viewportState.isSpacePressed))
  /\ viewportState' = [viewportState EXCEPT !.isSpacePressed = TRUE]
  /\ UNCHANGED <<camera, currentContentSize, initialized, fitPending, zoomOps>>

\* window 'keyup', e.code === 'Space'
keyupSpace ==
  /\ initialized
  /\ Handled(Ev("keyup", "Space", 0, 0, 0, 0, TRUE))
  /\ viewportState' = [viewportState EXCEPT !.isSpacePressed = FALSE]
  /\ UNCHANGED <<camera, currentContentSize, initialized, fitPending, zoomOps>>

\* mutant: a pointerdown during a pan is ignored
pointerdownFirstWins(button, pointerId, clientX, clientY) ==
  /\ initialized
  /\ LET shouldPan == ShouldPan(button, viewportState.isSpacePressed) IN
       /\ Handled(Ev("pointerdown", "", button, pointerId, clientX, clientY, shouldPan))
       /\ viewportState' =
            IF shouldPan /\ ~viewportState.isPanning
              THEN [viewportState EXCEPT !.isPanning = TRUE,
                                         !.pointerId = pointerId,
                                         !.startX = clientX,
                                         !.startY = clientY,
                                         !.startCameraX = camera.x,
                                         !.startCameraY = camera.y]
              ELSE viewportState
  /\ UNCHANGED <<camera, currentContentSize, initialized, fitPending, zoomOps>>

\* planCanvas 'pointerdown'
pointerdown(button, pointerId, clientX, clientY) ==
  /\ initialized
  /\ LET shouldPan == ShouldPan(button, viewportState.isSpacePressed) IN
       /\ Handled(Ev("pointerdown", "", button, pointerId, clientX, clientY, shouldPan))
       /\ viewportState' =
            IF shouldPan
              THEN [viewportState EXCEPT !.isPanning = TRUE,
                                         !.pointerId = pointerId,
                                         !.startX = clientX,
                                         !.startY = clientY,
                                         !.startCameraX = camera.x,
                                         !.startCameraY = camera.y]
              ELSE viewportState
  /\ UNCHANGED <<camera, currentContentSize, initialized, fitPending, zoomOps>>

\* mutant: the pointer id of the event is not compared
ActivePointerAnyId(vs, pointerId) == vs.isPanning

\* viewportState.isPanning && e.pointerId === viewportState.pointerId
ActivePointer(vs, pointerId) == vs.isPanning /\ pointerId = vs.pointerId

\* mutant: every pointermove drags the camera
pointermoveUnguarded(pointerId, clientX, clientY) ==
  /\ initialized
  /\ Handled(Ev("pointermove", "", 0, pointerId, clientX, clientY,
                ActivePointer(viewportState, pointerId)))
  /\ camera' = ClampCameraToBounds(DragTarget(camera, viewportState, clientX, clientY),
                                   rect, currentContentSize)
  /\ UNCHANGED <<viewportState, currentContentSize, initialized, fitPending, zoomOps>>

\* planCanvas 'pointermove'
pointermove(pointerId, clientX, clientY) ==
  /\ initialized
  /\ LET active == ActivePointer(viewportState, pointerId) IN
       /\ Handled(Ev("pointermove", "", 0, pointerId, clientX, clientY, active))
       /\ camera' =
            IF active
              THEN ClampCameraToBounds(DragTarget(camera, viewportState, clientX, clientY),
                                       rect, currentContentSize)
              ELSE camera
  /\ UNCHANGED <<viewportState, currentContentSize, initialized, fitPending, zoomOps>>

\* mutant: the pointer id outlives the pan
pointerupKeepsId(pointerId) ==
  /\ initialized
  /\ LET active == ActivePointer(viewportState, pointerId) IN
       /\ Handled(Ev("pointerup", "", 0, pointerId, 0, 0, active))
       /\ viewportState' =
            IF active
              THEN [viewportState EXCEPT !.isPanning = FALSE]
              ELSE viewportState
  /\ UNCHANGED <<camera, currentContentSize, initialized, fitPending, zoomOps>>

\* planCanvas 'pointerup'
pointerup(pointerId) ==
  /\ initialized
  /\ LET active == ActivePointer(viewportState, pointerId) IN
       /\ Handled(Ev("pointerup", "", 0, pointerId, 0, 0, active))
       /\ viewportState' =
            IF active
              THEN [viewportState EXCEPT !.isPanning = FALSE, !.pointerId = NoPointer]
              ELSE viewportState
  /\ UNCHANGED <<camera, currentContentSize, initialized, fitPending, zoomOps>>

\* The host takes the pointer capture away from the canvas during a pan
\* (lostpointercapture / pointercancel of the pointer that setPointerCapture
\* named). The code registers no listener for either event: nothing runs.
lostpointercapture ==
  /\ initialized
  /\ viewportState.isPanning
  /\ Handled(Ev("lostpointercapture", "", 0, viewportState.pointerId, 0, 0, FALSE))
  /\ UNCHANGED <<camera, viewportState, currentContentSize, initialized, fitPending,
                 zoomOps>>

\* planCanvas 'dblclick'
dblclickRemeasure ==
  /\ initialized
  /\ Handled(Ev("dblclick", "", 0, 0, 0, 0, ~Degenerate(currentContentSize)))
  /\ camera' = FitToView(camera, rect, currentContentSize)
  /\ currentContentSize' = [width |-> rect.width, height |-> rect.height]
  /\ UNCHANGED <<viewportState, initialized, fitPending, zoomOps>>

dblclick ==
  /\ initialized
  /\ Handled(Ev("dblclick", "", 0, 0, 0, 0, ~Degenerate(currentContentSize)))
  /\ camera' = FitToView(camera, rect, currentContentSize)
  /\ UNCHANGED <<viewportState, currentContentSize, initialized, fitPending, zoomOps>>

\* the keys that change the zoom by ZOOM_STEP
IsZoomKey(key) == key \in {"+", "-"}

\* window 'keydown', switch (e.key)
KeyCamera(cam, r, cs, key) ==
  CASE key = "+" -> ZoomToCenter(cam, r, cs, ZOOM_STEP)
    [] key = "-" -> ZoomToCenter(cam, r, cs, QInv(ZOOM_STEP))
    [] key = "0" -> FitToView(cam, r, cs)
    [] key = "Home" -> HomeCamera(cam, r, cs)
    [] key = "ArrowLeft" -> PanBy(cam, r, cs, PAN_STEP, 0)
    [] key = "ArrowRight" -> PanBy(cam, r, cs, -PAN_STEP, 0)
    [] key = "ArrowUp" -> PanBy(cam, r, cs, 0, PAN_STEP)
    [] key = "ArrowDown" -> PanBy(cam, r, cs, 0, -PAN_STEP)
    [] OTHER -> cam

keydown(key) ==
  /\ initialized
  /\ IsZoomKey(key) => zoomOps < MaxZoomOps
  /\ Handled(Ev("keydown", key, 0, 0, 0, 0, TRUE))
  /\ zoomOps' = IF IsZoomKey(key) THEN zoomOps + 1 ELSE zoomOps
  /\ camera' = KeyCamera(camera, rect, currentContentSize, key)
  /\ UNCHANGED <<viewportState, currentContentSize, initialized, fitPending>>

\* minimap 'click'
minimapClick(mx, my) ==
  /\ initialized
  /\ Handled(Ev("minimapClick", "", 0, 0, mx, my, TRUE))
  /\ camera' = MinimapCamera(camera, rect, currentContentSize, mx, my)
  /\ UNCHANGED <<viewportState, currentContentSize, initialized, fitPending, zoomOps>>

\* ------------------------------------------------------------------------
\* Specification of the viewport
\* ------------------------------------------------------------------------
Init == LayoutConstructed /\ CameraConstructed /\ AppConstructed

Next ==
  \/ \E cs \in ContentSizes : recalculateLayout(cs)
  \/ fitToViewFrame
  \/ cleanupViewport
  \/ \E p \in WheelPositions, d \in WheelDeltas : wheel(p[1], p[2], d)
  \/ keydownSpace
  \/ keyupSpace
  \/ \E b \in Buttons, i \in PointerIds, p \in PointerPositions :
        pointerdown(b, i, p[1], p[2])
  \/ \E i \in PointerIds, p \in PointerPositions : pointermove(i, p[1], p[2])
  \/ \E i \in PointerIds : pointerup(i)
  \/ lostpointercapture
  \/ dblclick
  \/ \E k \in Keys : keydown(k)
  \/ \E m \in MinimapPoints : minimapClick(m[1], m[2])

Spec == Init /\ [][Next]_vars

\* The browser runs every animation frame callback it was asked for. A
\* requested frame runs: the steps of fitToViewFrame, and no others, take one
\* from fitPending.
FrameRuns == fitPending > 0 /\ fitPending' = fitPending - 1

SpecFair == Spec /\ WF_fitPending(FrameRuns)

\* One handler run from a state a session can have reached: the zoom at its
\* limits, at the fit of the 480 x 170 content, at 1 and at 2; the camera
\* where fits, pans and drags can have left it inside the pannable region
\* (among them the fit of the 480 x 170 content, (-120, -185), and that fit
\* panned to the right edge, x = 120); idle or in a drag that started at
\* (100, 100).
\* a canvas narrower and lower than twice the padding of fitToView
NarrowRect == [left |-> 10, top |-> 20, width |-> 60, height |-> 40]
StepZooms == {MIN_ZOOM, <<1, 3>>, Q(1), Q(2), MAX_ZOOM}
StepCoords == {Q(-185), Q(-120), Q(0), Q(100), Q(120)}
StepViewportStates(cam) ==
  {[InitialViewportState EXCEPT !.isSpacePressed = sp] : sp \in BOOLEAN}
  \cup {[isPanning |-> TRUE, isSpacePressed |-> sp, startX |-> 100, startY |-> 100,
         startCameraX |-> cam.x, startCameraY |-> cam.y, pointerId |-> 1] :
          sp \in BOOLEAN}

InitStep ==
  /\ LayoutConstructed
  /\ AppConstructed
  /\ camera \in [x : StepCoords, y : StepCoords, zoom : StepZooms]
  /\ viewportState \in StepViewportStates(camera)
  /\ currentContentSize \in ContentSizes
  /\ rect \in {CanvasRect, NarrowRect}
  /\ \/ Degenerate(currentContentSize)
     \/ /\ QLe(MinX(camera, rect, currentContentSize), camera.x)
        /\ QLe(camera.x, MaxX(camera, rect, currentContentSize))
        /\ QLe(MinY(camera, rect, currentContentSize), camera.y)
        /\ QLe(camera.y, MaxY(camera, rect, currentContentSize))
  /\ initialized = TRUE
  /\ fitPending \in {0, 1}
  /\ last = NoEvent
  /\ steps = MaxSteps - 1
  /\ zoomOps = 0

SpecStep == InitStep /\ [][Next]_vars

\* ------------------------------------------------------------------------
\* Specification of the query state: the application and the listeners call
\* the module, one call or callback step at a time
\* ------------------------------------------------------------------------
SpecQuery == Init /\ [][NextQuery]_vars

\* ------------------------------------------------------------------------
\* Specification of the theme: initTheme, clicks on the toggle and changes of
\* the system colour scheme, on a first or a later visit
\* ------------------------------------------------------------------------
InitTheme ==
  /\ LayoutConstructed
  /\ CameraConstructed
  /\ QueryConstructed
  /\ JoinConstructed
  /\ ThemeLoaded

SpecTheme == InitTheme /\ [][NextTheme]_vars

\* ------------------------------------------------------------------------
\* Specification of the join parser: operators are collected, then combined
\* ------------------------------------------------------------------------
SpecJoins == Init /\ [][NextJoins]_vars

\* ========================================================================
\* Claims about the camera
\* ========================================================================
\* the pannable region of clampCameraToBounds, for the state's zoom,
\* viewport and content size
InBounds(cam, r, cs) ==
  /\ QLe(MinX(cam, r, cs), cam.x) /\ QLe(cam.x, MaxX(cam, r, cs))
  /\ QLe(MinY(cam, r, cs), cam.y) /\ QLe(cam.y, MaxY(cam, r, cs))

StrictlyInBounds(cam, r, cs) ==
  /\ QLt(MinX(cam, r, cs), cam.x) /\ QLt(cam.x, MaxX(cam, r, cs))
  /\ QLt(MinY(cam, r, cs), cam.y) /\ QLt(cam.y, MaxY(cam, r, cs))

\* C1: in every state reachable from the initial camera, whatever wheel
\* events, zoom keys, fits, pans, Home, minimap clicks and layout
\* recalculations have run, MIN_ZOOM <= camera.zoom <= MAX_ZOOM.
C1_ZoomWithinLimits == QLe(MIN_ZOOM, camera.zoom) /\ QLe(camera.zoom, MAX_ZOOM)

\* a wheel event has zoomed out of a camera that was at MIN_ZOOM already
C1_Witness ==
  /\ last.op = "wheel"
  /\ last.deltaY > 0
  /\ camera.zoom = MIN_ZOOM

\* C2: in every reachable state whose content size is not degenerate the
\* camera lies in [minX, maxX] x [minY, maxY] of clampCameraToBounds.
C2_CameraWithinBounds ==
  ~Degenerate(currentContentSize) => InBounds(camera, rect, currentContentSize)

\* the step is a wheel event or a zoom key
IsZoomStep ==
  /\ steps' = steps + 1
  /\ last'.op = "wheel" \/ (last'.op = "keydown" /\ IsZoomKey(last'.key))

\* the screen point the step zooms around: the cursor, or the centre of the
\* viewport
ZoomAnchor ==
  IF last'.op = "wheel" THEN <<last'.x, last'.y>>
  ELSE <<rect.left + rect.width \div 2, rect.top + rect.height \div 2>>

AnchorKept ==
  ScreenToWorld(camera', rect, ZoomAnchor[1], ZoomAnchor[2])
    = ScreenToWorld(camera, rect, ZoomAnchor[1], ZoomAnchor[2])

RECURSIVE ReachableFrom(_)
ReachableFrom(S) ==
  LET N == S \cup {c \in DOMAIN graph :
                     \E n \in S : \E k \in 1..Len(graph[n].children) :
                        graph[n].children[k] = c}
  IN IF N = S THEN S ELSE ReachableFrom(N)

HasDanglingChild(n) ==
  \E k \in 1..Len(graph[n].children) : graph[n].children[k] \notin DOMAIN graph

C5_EnterOnce ==
  /\ \A id \in DOMAIN wEnter : wEnter[id] <= 1
  /\ \A id \in DOMAIN pEnter : pEnter[id] <= 1

C5_LayoutTerminates ==
  /\ []C5_EnterOnce
  /\ (lpc \in {"width", "widthDone", "pos"}) ~> (lpc = "done")

\* C5 witness: a finished layout of a graph in which a node has itself or one
\* of its ancestors among its children (the root is on a cycle)
C5_Witness ==
  /\ lpc = "done"
  /\ \E n \in DOMAIN graph :
       /\ n \in ReachableFrom({rootId})
       /\ \E k \in 1..Len(graph[n].children) : graph[n].children[k] = rootId

\* C6 (as claimed): any two distinct positioned nodes with the same y are at
\* least NODE_WIDTH apart in x.
C6_NonOverlapping ==
  lpc = "done" =>
    \A a, b \in DOMAIN layout.positions :
      (a # b /\ layout.positions[a].y = layout.positions[b].y) =>
        \/ layout.positions[a].x - layout.positions[b].x >= NODE_WIDTH
        \/ layout.positions[b].x - layout.positions[a].x >= NODE_WIDTH

\* C7 (as claimed): the returned width and height bound every positioned node.
C7_ContentSizeBoundsNodes ==
  lpc = "done" =>
    \A a \in DOMAIN layout.positions :
      /\ 0 <= layout.positions[a].x
      /\ layout.positions[a].x + NODE_WIDTH <= layout.width
      /\ 0 <= layout.positions[a].y
      /\ layout.positions[a].y + NODE_HEIGHT <= layout.height

\* C8: a further call of calculateTreeLayout on the same root and graph, whose
\* nodes carry the _width of the previous call, returns the same positions,
\* width and height as the first call.
C8_LayoutRepeatable ==
  (lpc = "done" /\ calls >= 2) => layout = firstLayout

\* C8 witness: a second call has returned on a graph with a cycle through the
\* root and at least three positioned nodes
C8_Witness ==
  /\ lpc = "done"
  /\ calls = 2
  /\ Cardinality(DOMAIN layout.positions) >= 3
  /\ \E n \in DOMAIN layout.positions :
       \E k \in 1..Len(graph[n].children) : graph[n].children[k] = rootId

\* ========================================================================
\* Claims about the interaction handlers
\* ========================================================================
\* the drag anchor of the interaction state
DragAnchor(vs) == <<vs.startX, vs.startY, vs.startCameraX, vs.startCameraY>>

\* C9: a pointerdown takes the interaction state from idle to panning if and
\* only if (primary button and Space held) or secondary button; it then
\* records the pointer id, the screen position of the event and the camera
\* position; any other pointerdown leaves isPanning, pointerId, the drag
\* anchor and the camera as they were.
C9_PointerDownStartsPan ==
  [][(steps' = steps + 1 /\ last'.op = "pointerdown") =>
       LET starts == \/ last'.button = 0 /\ viewportState.isSpacePressed
                     \/ last'.button = 2
       IN /\ ~viewportState.isPanning => (viewportState'.isPanning <=> starts)
          /\ starts =>
               /\ viewportState'.isPanning
               /\ viewportState'.pointerId = last'.id
               /\ DragAnchor(viewportState') = <<last'.x, last'.y, camera.x, camera.y>>
          /\ ~starts =>
               /\ viewportState'.isPanning = viewportState.isPanning
               /\ viewportState'.pointerId = viewportState.pointerId
               /\ DragAnchor(viewportState') = DragAnchor(viewportState)
               /\ camera' = camera]_vars

\* a primary-button pointerdown with Space held has started a pan away from
\* the origin of the screen and of the world
C9_Witness ==
  /\ last.op = "pointerdown"
  /\ last.button = 0
  /\ viewportState.isSpacePressed
  /\ viewportState.isPanning
  /\ viewportState.pointerId = last.id
  /\ viewportState.startX = 150
  /\ viewportState.startCameraX = camera.x
  /\ camera.x # Q(0)

\* C10: while panning, a pointermove of the active pointer to screen
\* position p sets camera.x,y to the clamp of
\* startCamera - (p - startScreen) / zoom and leaves the zoom unchanged; a
\* drag from (100,100) to (150,130) at zoom 2 that the clamp admits shifts
\* the camera by (-25,-15) from where the drag started.
C10_DragMovesCamera ==
  [][(/\ steps' = steps + 1
      /\ last'.op = "pointermove"
      /\ viewportState.isPanning
      /\ last'.id = viewportState.pointerId) =>
       LET vs == viewportState
           target == [x |-> QSub(vs.startCameraX, QDiv(Q(last'.x - vs.startX), camera.zoom)),
                      y |-> QSub(vs.startCameraY, QDiv(Q(last'.y - vs.startY), camera.zoom)),
                      zoom |-> camera.zoom]
       IN /\ camera' = ClampCameraToBounds(target, rect, currentContentSize)
          /\ camera'.zoom = camera.zoom
          /\ (/\ camera.zoom = Q(2)
              /\ <<vs.startX, vs.startY>> = <<100, 100>>
              /\ <<last'.x, last'.y>> = <<150, 130>>
              /\ \/ Degenerate(currentContentSize)
                 \/ InBounds(target, rect, currentContentSize))
             => /\ camera'.x = QSub(vs.startCameraX, Q(25))
                /\ camera'.y = QSub(vs.startCameraY, Q(15))]_vars

\* the drag of the example has moved the camera over content
C10_Witness ==
  /\ last.op = "pointermove"
  /\ last.hit
  /\ <<last.x, last.y>> = <<150, 130>>
  /\ <<viewportState.startX, viewportState.startY>> = <<100, 100>>
  /\ camera.zoom = Q(2)
  /\ ~Degenerate(currentContentSize)
  /\ camera.x = QSub(viewportState.startCameraX, Q(25))
  /\ camera.y = QSub(viewportState.startCameraY, Q(15))

\* C11: while panning, a pointerup of the active pointer id returns the
\* state to idle (isPanning false, pointerId null) and leaves the camera as
\* it is; a pointerup of any other pointer id leaves the state panning with
\* the same pointerId and drag anchor.
C11_PointerUpEndsPan ==
  [][(/\ steps' = steps + 1
      /\ last'.op = "pointerup"
      /\ viewportState.isPanning) =>
       IF last'.id = viewportState.pointerId
         THEN /\ ~viewportState'.isPanning
              /\ viewportState'.pointerId = NoPointer
              /\ camera' = camera
         ELSE /\ viewportState'.isPanning
              /\ viewportState'.pointerId = viewportState.pointerId
              /\ DragAnchor(viewportState') = DragAnchor(viewportState)]_vars

\* a pan of pointer 2 that started at screen x = 150 was ended by its
\* pointerup
C11_Witness ==
  /\ last.op = "pointerup"
  /\ last.hit
  /\ last.id = 2
  /\ ~viewportState.isPanning
  /\ viewportState.pointerId = NoPointer
  /\ viewportState.startX = 150

\* C12: when the pointer capture is lost during a pan without a pointerup
\* of the tracked pointer, the interaction state returns to idle (isPanning
\* false, pointerId null) and the camera is not changed.
C12_CaptureLossEndsPan ==
  [][(/\ steps' = steps + 1
      /\ last'.op = "lostpointercapture"
      /\ viewportState.isPanning) =>
       /\ ~viewportState'.isPanning
       /\ viewportState'.pointerId = NoPointer
       /\ camera' = camera]_vars

\* ========================================================================
\* Claims about fitToView and clampCameraToBounds
\* ========================================================================
\* the step ran fitToView: double click, the "0" key, or the deferred fit of
\* the first render
IsFitStep ==
  /\ steps' = steps + 1
  /\ \/ last'.op \in {"dblclick", "fitToViewFrame"}
     \/ last'.op = "keydown" /\ last'.key = "0"

\* the content box [0, width] x [0, height], mapped to the screen by cam,
\* lies inside the canvas rectangle
ContentInsideViewport(cam, r, cs) ==
  LET tl == WorldToScreen(cam, r, [x |-> Q(0), y |-> Q(0)])
      br == WorldToScreen(cam, r, [x |-> Q(cs.width), y |-> Q(cs.height)])
  IN /\ QLe(Q(r.left), tl.x) /\ QLe(br.x, Q(r.left + r.width))
     /\ QLe(Q(r.top), tl.y) /\ QLe(br.y, Q(r.top + r.height))

\* the content scaled by MIN_ZOOM is no larger than the canvas
FitsAtMinZoom(r, cs) ==
  /\ QLe(QMul(Q(cs.width), MIN_ZOOM), Q(r.width))
  /\ QLe(QMul(Q(cs.height), MIN_ZOOM), Q(r.height))

\* C13 as stated: after fitToView on any non-degenerate content size and any
\* viewport size the content box lies inside the viewport rectangle, and
\* camera.zoom <= 1.
C13_FitShowsAllContent ==
  [][(IsFitStep /\ ~Degenerate(currentContentSize)) =>
       /\ ContentInsideViewport(camera', rect, currentContentSize)
       /\ QLe(camera'.zoom, Q(1))]_vars

\* C13 amended: after fitToView on non-degenerate content camera.zoom <= 1,
\* and the content box lies inside the viewport rectangle whenever the
\* content scaled by MIN_ZOOM is no larger than the viewport.
C13_FitShowsContentUnlessTooLarge ==
  [][(IsFitStep /\ ~Degenerate(currentContentSize)) =>
       /\ QLe(camera'.zoom, Q(1))
       /\ FitsAtMinZoom(rect, currentContentSize)
            => ContentInsideViewport(camera', rect, currentContentSize)]_vars

\* a fit has run on content that only MIN_ZOOM brings inside the canvas
C13_Witness ==
  /\ last.op = "dblclick"
  /\ currentContentSize.width = 1670
  /\ rect = CanvasRect
  /\ camera.zoom = MIN_ZOOM
  /\ ContentInsideViewport(camera, rect, currentContentSize)

\* the zoom fitToView is said to choose, for a viewport of w x h
FitZoomFor(w, h, cs) ==
  QMax(MIN_ZOOM,
       QMin(MAX_ZOOM, QMin(QMin(QDiv(Q(w), Q(cs.width)), QDiv(Q(h), Q(cs.height))),
                           Q(1))))

\* C14 as stated: fitToView sets camera.zoom to min(viewportWidth /
\* contentWidth, viewportHeight / contentHeight, 1) clamped to
\* [MIN_ZOOM, MAX_ZOOM].
C14_FitZoomOfViewport ==
  [][(IsFitStep /\ ~Degenerate(currentContentSize)) =>
       camera'.zoom = FitZoomFor(rect.width, rect.height, currentContentSize)]_vars

\* C14 amended: fitToView sets camera.zoom to min((viewportWidth - 80) /
\* contentWidth, (viewportHeight - 80) / contentHeight, 1) clamped to
\* [MIN_ZOOM, MAX_ZOOM]: the viewport less a padding of 40 on every side.
C14_FitZoomOfPaddedViewport ==
  [][(IsFitStep /\ ~Degenerate(currentContentSize)) =>
       camera'.zoom = FitZoomFor(rect.width - 80, rect.height - 80,
                                 currentContentSize)]_vars

\* the "0" key has fitted the 480 x 170 content into the 240 x 180 canvas at
\* zoom 1/3, the scale 160 / 480 of the padded width
C14_Witness ==
  /\ last.op = "keydown"
  /\ last.key = "0"
  /\ currentContentSize = [width |-> 480, height |-> 170]
  /\ rect = CanvasRect
  /\ camera.zoom = <<1, 3>>

\* the step ran a handler that ends in clampCameraToBounds
IsClampStep ==
  /\ steps' = steps + 1
  /\ \/ last'.op \in {"wheel", "minimapClick"}
     \/ last'.op = "pointermove" /\ last'.hit
     \/ last'.op = "keydown" /\ last'.key \notin {"0", "Space"}

\* C15: clampCameraToBounds is idempotent: applied again to the camera it
\* has left, with the same content size and viewport, it yields the same
\* camera; and it does not change the zoom.
C15_ClampIdempotent ==
  [][IsClampStep =>
       /\ ClampCameraToBounds(camera', rect, currentContentSize) = camera'
       /\ last'.op \in {"minimapClick", "pointermove"} => camera'.zoom = camera.zoom]_vars

\* a pan to the right was stopped at the right edge of the pannable region
C15_Witness ==
  /\ last.op = "keydown"
  /\ last.key = "ArrowRight"
  /\ ~Degenerate(currentContentSize)
  /\ camera.x = MaxX(camera, rect, currentContentSize)

\* the content size has zero width or zero height
ZeroContent == currentContentSize.width = 0 \/ currentContentSize.height = 0

\* C16: while the content size has zero width or height, fitToView leaves
\* the camera as it is and clampCameraToBounds moves nothing (Home leaves
\* the camera at the origin, a drag leaves it at its unclamped target); and
\* no operation ever yields a camera value that is NaN or infinite.
C16_DegenerateContentIsHarmless ==
  /\ [](IsFinite(camera.x) /\ IsFinite(camera.y) /\ IsFinite(camera.zoom))
  /\ [][(steps' = steps + 1 /\ ZeroContent) =>
         /\ IsFitStep => camera' = camera
         /\ (last'.op = "keydown" /\ last'.key = "Home")
              => camera' = [camera EXCEPT !.x = Q(0), !.y = Q(0)]
         /\ (last'.op = "pointermove" /\ last'.hit)
              => /\ camera'.x = QSub(viewportState.startCameraX,
                                     QDiv(Q(last'.x - viewportState.startX), camera.zoom))
                 /\ camera'.y = QSub(viewportState.startCameraY,
                                     QDiv(Q(last'.y - viewportState.startY), camera.zoom))
                 /\ camera'.zoom = camera.zoom]_vars

\* a double click has run fitToView on empty content with the camera away
\* from its initial value
C16_Witness ==
  /\ last.op = "dblclick"
  /\ ZeroContent
  /\ camera.x # Q(0)
  /\ camera.zoom # Q(1)

C18_EmptyListReportsNoOperators ==
  (lpc # "input" /\ DOMAIN graph = {}) =>
    NoOperatorsMessage \in {display.alert, display.canvas}

\* ========================================================================
\* Claims about what a re-layout and the events leave alone
\* ========================================================================
\* C19: recalculateLayout on a viewport that is set up leaves camera x, y
\* and zoom equal to their values before the re-render; on a viewport that
\* was not set up, fitToView is eventually run.
C19_RelayoutKeepsCamera ==
  /\ [][(steps' = steps + 1 /\ last'.op = "recalculateLayout" /\ initialized)
          => camera' = camera]_vars
  /\ (last.op = "recalculateLayout" /\ ~last.hit) ~> (last.op = "fitToViewFrame")

\* a re-layout to the single node has kept the camera that the fit of the
\* 480 x 170 content had set
C19_Witness ==
  /\ last.op = "recalculateLayout"
  /\ last.hit
  /\ currentContentSize = [width |-> 140, height |-> 50]
  /\ camera = [x |-> Q(-120), y |-> Q(-185), zoom |-> <<1, 3>>]
  /\ fitPending = 0

RECURSIVE ClaimedVisit(_, _, _)
RECURSIVE ClaimedKids(_, _, _, _, _, _)
ClaimedKids(g, kids, i, st, S, k) ==
  IF i > Len(kids) THEN [st |-> st, S |-> S, k |-> k]
  ELSE IF kids[i] \notin DOMAIN g THEN ClaimedKids(g, kids, i + 1, st, S, k)
  ELSE IF kids[i] \in st.visited
    THEN ClaimedKids(g, kids, i + 1, st, S + NODE_WIDTH, k + 1)
  ELSE LET r == ClaimedVisit(g, kids[i], st)
       IN ClaimedKids(g, kids, i + 1, r.st, S + r.w, k + 1)

ClaimedVisit(g, id, st) ==
  LET entered == [st EXCEPT !.visited = @ \cup {id}]
      r == ClaimedKids(g, g[id].children, 1, entered, 0, 0)
      w == IF Len(g[id].children) = 0 THEN NODE_WIDTH
           ELSE Max(NODE_WIDTH, r.S + (r.k - 1) * HORIZONTAL_SPACING)
      after == IF Len(g[id].children) = 0 THEN entered ELSE r.st
  IN [st |-> [after EXCEPT !.width = (id :> w) @@ @], w |-> w]

ClaimedWidths(g, r) ==
  ClaimedVisit(g, r, [visited |-> {}, width |-> [i \in {} |-> 0]]).st.width

\* C21: when the layout is computed, every visited node has the width
\* max(NODE_WIDTH, S + (k - 1) * HORIZONTAL_SPACING) of its k resolving child
\* ids (NODE_WIDTH without children), a dangling child id adding neither
\* width nor spacing at any position; every width is at least NODE_WIDTH
\* and a leaf's is NODE_WIDTH.
C21_WidthOfResolvingChildren ==
  lpc = "done" =>
    /\ \A id \in visitedW : graph[id].width = ClaimedWidths(graph, rootId)[id]
    /\ \A id \in visitedW : graph[id].width >= NODE_WIDTH
    /\ \A id \in visitedW : IsLeaf(graph, id) => graph[id].width = NODE_WIDTH

\* the input is a proper tree: no child id was added to the tree's edges
ProperTree == ~extraEdge

\* the record that lists id among its children, and the place of id there
ParentOf(id) == CHOOSE p \in DOMAIN graph :
                  \E j \in 1..Len(graph[p].children) : graph[p].children[j] = id
PlaceOf(id) == CHOOSE j \in 1..Len(graph[ParentOf(id)].children) :
                  graph[ParentOf(id)].children[j] = id

RECURSIVE DepthOf(_)
DepthOf(id) == IF id = rootId THEN 0 ELSE 1 + DepthOf(ParentOf(id))

RECURSIVE WidthsBefore(_, _)
WidthsBefore(kids, j) ==
  IF j = 1 THEN 0
  ELSE WidthsBefore(kids, j - 1) + graph[kids[j - 1]].width + HORIZONTAL_SPACING

\* left edge of the subtree of id: the parent's left edge plus the widths of
\* the preceding siblings plus one spacing for each of them
RECURSIVE LeftEdgeOf(_)
LeftEdgeOf(id) ==
  IF id = rootId THEN 0
  ELSE LeftEdgeOf(ParentOf(id))
         + WidthsBefore(graph[ParentOf(id)].children, PlaceOf(id))

TwoLeaves ==
  /\ DOMAIN graph = {0, 1, 2}
  /\ graph[0].children = <<1, 2>>

\* C22: in the layout of a proper tree every node is at
\* y = depth * (NODE_HEIGHT + VERTICAL_SPACING) and at
\* x = left edge of its subtree + (own width - NODE_WIDTH) / 2, the left edges
\* following the children order; a root with two leaves has both leaves at
\* one y, the root midway between them and content width
\* 2 * NODE_WIDTH + HORIZONTAL_SPACING.
C22_TreePositions ==
  (lpc = "done" /\ ProperTree) =>
    /\ \A id \in DOMAIN layout.positions :
         /\ layout.positions[id].y = DepthOf(id) * (NODE_HEIGHT + VERTICAL_SPACING)
         /\ 2 * layout.positions[id].x
              = 2 * LeftEdgeOf(id) + (graph[id].width - NODE_WIDTH)
    /\ (TwoLeaves /\ rootId = 0) =>
         /\ layout.positions[1].y = layout.positions[2].y
         /\ layout.positions[1].x < layout.positions[2].x
         /\ 2 * layout.positions[0].x
              = layout.positions[1].x + layout.positions[2].x
         /\ layout.width = 2 * NODE_WIDTH + HORIZONTAL_SPACING

\* a tree of five records on three levels is laid out
C22_Witness ==
  /\ lpc = "done"
  /\ ProperTree
  /\ rootId = 0
  /\ DOMAIN graph = 0..4
  /\ graph[0].children = <<1, 2>>
  /\ graph[1].children = <<3, 4>>
  /\ layout.positions[2] = [x |-> 340, y |-> 120]
  /\ layout.positions[4] = [x |-> 170, y |-> 240]

\* a root with two leaves is laid out
C22_WitnessTwoLeaves ==
  /\ lpc = "done"
  /\ ProperTree
  /\ rootId = 0
  /\ TwoLeaves
  /\ layout.positions[0] = [x |-> 85, y |-> 0]

\* ========================================================================
\* Claims about the camera operations
\* ========================================================================
\* the region of the claim: [-0.5 cw - mX, 1.5 cw - vw + mX] with
\* vw = viewport width / zoom and mX = max(0, (vw - cw) / 2); likewise in y
RegionLow(c, v) ==
  LET m == QMax(Q(0), QDiv(QSub(v, Q(c)), Q(2)))
  IN QSub(QDiv(Q(-c), Q(2)), m)

RegionHigh(c, v) ==
  LET m == QMax(Q(0), QDiv(QSub(v, Q(c)), Q(2)))
  IN QAdd(QSub(QDiv(Q(3 * c), Q(2)), v), m)

InRegion(cam, r, cs) ==
  LET vw == QDiv(Q(r.width), cam.zoom)
      vh == QDiv(Q(r.height), cam.zoom)
  IN /\ QLe(RegionLow(cs.width, vw), cam.x)
     /\ QLe(cam.x, RegionHigh(cs.width, vw))
     /\ QLe(RegionLow(cs.height, vh), cam.y)
     /\ QLe(cam.y, RegionHigh(cs.height, vh))

\* the camera an arrow key aims at, before the clamp
ArrowTarget(cam, key) ==
  LET d == QDiv(Q(80), cam.zoom)
  IN CASE key = "ArrowLeft"  -> [cam EXCEPT !.x = QSub(@, d)]
       [] key = "ArrowRight" -> [cam EXCEPT !.x = QAdd(@, d)]
       [] key = "ArrowUp"    -> [cam EXCEPT !.y = QSub(@, d)]
       [] key = "ArrowDown"  -> [cam EXCEPT !.y = QAdd(@, d)]
       [] OTHER -> cam

ArrowKeys == {"ArrowLeft", "ArrowRight", "ArrowUp", "ArrowDown"}

\* C23: with content of non-zero size, the camera that clampCameraToBounds
\* leaves has x in [-0.5 cw - mX, 1.5 cw - vw + mX] and y in
\* [-0.5 ch - mY, 1.5 ch - vh + mY]; a camera inside that region is left
\* as it is.
C23_ClampRegion ==
  /\ [][(IsClampStep /\ ~ZeroContent) =>
          /\ InRegion(camera', rect, currentContentSize)
          /\ (last'.op = "keydown" /\ last'.key \in ArrowKeys
                /\ InRegion(ArrowTarget(camera, last'.key), rect, currentContentSize))
               => camera' = ArrowTarget(camera, last'.key)]_vars
  /\ []((~ZeroContent /\ InRegion(camera, rect, currentContentSize))
          => ClampCameraToBounds(camera, rect, currentContentSize) = camera)

\* a pan to the left was stopped at the left edge of the region
C23_Witness ==
  /\ last.op = "keydown"
  /\ last.key = "ArrowLeft"
  /\ ~ZeroContent
  /\ camera.x = RegionLow(currentContentSize.width, QDiv(Q(rect.width), camera.zoom))

\* z brought into [MIN_ZOOM, MAX_ZOOM] = [0.1, 6]
ZoomInLimits(z) ==
  IF QLt(z, <<1, 10>>) THEN <<1, 10>> ELSE IF QLt(Q(6), z) THEN Q(6) ELSE z

\* C24: a wheel event multiplies camera.zoom by 0.99 when deltaY > 0 and by
\* 1.01 when deltaY < 0 and brings the product into [MIN_ZOOM, MAX_ZOOM]
\* (zoom 1 becomes 0.99); it changes neither isPanning nor pointerId nor the
\* drag anchor.
C24_WheelFactor ==
  [][(steps' = steps + 1 /\ last'.op = "wheel") =>
       /\ last'.deltaY > 0 =>
            camera'.zoom = ZoomInLimits(QMul(camera.zoom, <<99, 100>>))
       /\ last'.deltaY < 0 =>
            camera'.zoom = ZoomInLimits(QMul(camera.zoom, <<101, 100>>))
       /\ (last'.deltaY > 0 /\ camera.zoom = Q(1)) => camera'.zoom = <<99, 100>>
       /\ viewportState'.isPanning = viewportState.isPanning
       /\ viewportState'.pointerId = viewportState.pointerId
       /\ DragAnchor(viewportState') = DragAnchor(viewportState)]_vars

\* a wheel tick away from the user, during a drag, has taken the zoom from 1
\* to 0.99
C24_Witness ==
  /\ last.op = "wheel"
  /\ last.deltaY > 0
  /\ camera.zoom = <<99, 100>>
  /\ viewportState.isPanning

\* the clamp of the claims: x and y brought into the region of C23, the
\* camera left alone when the content has zero width or height
ClampedInto(cam, r, cs) ==
  IF cs.width = 0 \/ cs.height = 0 THEN cam
  ELSE LET vw == QDiv(Q(r.width), cam.zoom)
           vh == QDiv(Q(r.height), cam.zoom)
       IN [x |-> QMax(RegionLow(cs.width, vw), QMin(RegionHigh(cs.width, vw), cam.x)),
           y |-> QMax(RegionLow(cs.height, vh), QMin(RegionHigh(cs.height, vh), cam.y)),
           zoom |-> cam.zoom]

\* the screen step an arrow key pans by
ArrowStep(key) ==
  CASE key = "ArrowLeft"  -> <<80, 0>>
    [] key = "ArrowRight" -> <<-80, 0>>
    [] key = "ArrowUp"    -> <<0, 80>>
    [] key = "ArrowDown"  -> <<0, -80>>

\* C25: an arrow key pans by (dx, dy) = (80, 0), (-80, 0), (0, 80), (0, -80)
\* for Left, Right, Up, Down: the camera becomes the clamp of
\* (x - dx / zoom, y - dy / zoom) with the zoom and the interaction state
\* unchanged.
C25_PanByArrow ==
  [][(steps' = steps + 1 /\ last'.op = "keydown" /\ last'.key \in ArrowKeys) =>
       LET d == ArrowStep(last'.key) IN
       /\ camera' = ClampedInto([x |-> QSub(camera.x, QDiv(Q(d[1]), camera.zoom)),
                                 y |-> QSub(camera.y, QDiv(Q(d[2]), camera.zoom)),
                                 zoom |-> camera.zoom],
                                rect, currentContentSize)
       /\ viewportState' = viewportState]_vars

\* ArrowUp at zoom 2 has moved the camera 40 world units up, to y = -40
C25_Witness ==
  /\ last.op = "keydown"
  /\ last.key = "ArrowUp"
  /\ camera.zoom = Q(2)
  /\ camera.y = Q(-40)
  /\ currentContentSize = [width |-> 480, height |-> 170]

\* the camera at the world origin, with the zoom of cam
AtOrigin(cam) == [x |-> Q(0), y |-> Q(0), zoom |-> cam.zoom]

\* C26: the Home key leaves the zoom and sets camera x, y to the clamp of
\* the world origin, which is the origin itself whenever the origin is
\* inside the pannable region.
C26_HomeIsClampedOrigin ==
  [][(steps' = steps + 1 /\ last'.op = "keydown" /\ last'.key = "Home") =>
       /\ camera' = ClampedInto(AtOrigin(camera), rect, currentContentSize)
       /\ InRegion(AtOrigin(camera), rect, currentContentSize)
            => camera' = AtOrigin(camera)]_vars

\* Home with the origin outside the pannable region: the camera is at the
\* edge of the region, not at the origin
C26_Witness ==
  /\ last.op = "keydown"
  /\ last.key = "Home"
  /\ ~ZeroContent
  /\ ~InRegion(AtOrigin(camera), rect, currentContentSize)
  /\ currentContentSize = [width |-> 480, height |-> 170]
  /\ camera = [x |-> Q(0), y |-> Q(-100), zoom |-> <<1, 3>>]

\* the world point of the minimap-local point (mx, my):
\* (m - 8) / min((180 - 16) / cw, (120 - 16) / ch)
ClickedWorld(cs, mx, my) ==
  LET sc == QMin(QDiv(Q(164), Q(cs.width)), QDiv(Q(104), Q(cs.height)))
  IN [x |-> QDiv(Q(mx - 8), sc), y |-> QDiv(Q(my - 8), sc)]

\* the camera that shows world point w at the middle of the viewport
CenteredOn(cam, r, w) ==
  [x |-> QSub(w.x, QDiv(QDiv(Q(r.width), cam.zoom), Q(2))),
   y |-> QSub(w.y, QDiv(QDiv(Q(r.height), cam.zoom), Q(2))),
   zoom |-> cam.zoom]

\* C27: a minimap click at m sets camera x, y to the clamp of
\* w - (viewport size / zoom) / 2 for the world point w = (m - 8) / s and
\* leaves the zoom; when the clamp changes nothing, w is drawn at the middle
\* of the viewport.
C27_MinimapClickCentres ==
  [][(steps' = steps + 1 /\ last'.op = "minimapClick") =>
       LET w == ClickedWorld(currentContentSize, last'.x, last'.y)
           t == CenteredOn(camera, rect, w)
       IN /\ camera' = ClampedInto(t, rect, currentContentSize)
          /\ camera'.zoom = camera.zoom
          /\ (camera' = t /\ IsFinite(t.x) /\ IsFinite(t.y)) =>
               /\ QMul(QSub(w.x, camera'.x), camera'.zoom) = QDiv(Q(rect.width), Q(2))
               /\ QMul(QSub(w.y, camera'.y), camera'.zoom) = QDiv(Q(rect.height), Q(2))]_vars

\* a click in the middle of the minimap, content 480 x 170 at zoom 1: world
\* point (240, 6240/41) is at the middle of the 240 x 180 viewport
C27_Witness ==
  /\ last.op = "minimapClick"
  /\ last.x = 90
  /\ last.y = 60
  /\ currentContentSize = [width |-> 480, height |-> 170]
  /\ rect = CanvasRect
  /\ camera = [x |-> Q(120), y |-> <<2550, 41>>, zoom |-> Q(1)]

\* C28: after fitToView on content of non-zero size
\* camera.x = -(viewport width / zoom - content width) / 2 and
\* camera.y = -(viewport height / zoom - content height) / 2, so the middle
\* of the content is drawn at the middle of the viewport, also when the zoom
\* was raised to MIN_ZOOM.
C28_FitCentres ==
  [][(IsFitStep /\ ~ZeroContent) =>
       LET cw == Q(currentContentSize.width)
           ch == Q(currentContentSize.height)
           z == camera'.zoom
       IN /\ camera'.x = QNeg(QDiv(QSub(QDiv(Q(rect.width), z), cw), Q(2)))
          /\ camera'.y = QNeg(QDiv(QSub(QDiv(Q(rect.height), z), ch), Q(2)))
          /\ QMul(QSub(QDiv(cw, Q(2)), camera'.x), z) = QDiv(Q(rect.width), Q(2))
          /\ QMul(QSub(QDiv(ch, Q(2)), camera'.y), z) = QDiv(Q(rect.height), Q(2))]_vars

\* the 2520 x 170 content was fitted into the 240 x 180 viewport at
\* MIN_ZOOM: the camera is at (60, -815)
C28_Witness ==
  /\ last.op = "dblclick"
  /\ currentContentSize = [width |-> 2520, height |-> 170]
  /\ rect = CanvasRect
  /\ camera = [x |-> Q(60), y |-> Q(-815), zoom |-> <<1, 10>>]

\* ========================================================================
\* Claims about the coordinate systems
\* ========================================================================
\* surface origins, screen points and world points the conversions are
\* applied to
SurfaceOrigins == {<<10, 20>>, <<-300, 45>>}
ScreenPoints == {[x |-> Q(130), y |-> Q(110)], [x |-> <<501, 2>>, y |-> Q(-7)]}
WorldPoints == {[x |-> Q(480), y |-> Q(170)], [x |-> Q(-37), y |-> <<1, 3>>]}

SurfaceAt(r, o) == [r EXCEPT !.left = o[1], !.top = o[2]]

\* C29: for the camera of every state and every surface origin,
\* worldToScreen(screenToWorld(p)) = p, screenToWorld(worldToScreen(w)) = w,
\* and the transform of the renderer draws every world point where
\* worldToScreen puts it, less the surface origin.
C29_ConversionsAreInverse ==
  \A o \in SurfaceOrigins :
    LET r == SurfaceAt(rect, o) IN
    /\ \A p \in ScreenPoints :
         WorldToScreen(camera, r, ScreenToWorldAt(camera, r, p)) = p
    /\ \A w \in WorldPoints :
         /\ ScreenToWorldAt(camera, r, WorldToScreen(camera, r, w)) = w
         /\ Drawn(UpdateTransform(camera), w)
              = [x |-> QSub(WorldToScreen(camera, r, w).x, Q(o[1])),
                 y |-> QSub(WorldToScreen(camera, r, w).y, Q(o[2]))]

\* the fitted camera (-120, -185) at zoom 1/3: the world origin is on the
\* screen at (50, 245/3) and that screen point is the world origin
C29_Witness ==
  /\ camera = [x |-> Q(-120), y |-> Q(-185), zoom |-> <<1, 3>>]
  /\ rect = CanvasRect
  /\ last.op = "dblclick"
  /\ WorldToScreen(camera, rect, [x |-> Q(0), y |-> Q(0)])
       = [x |-> Q(50), y |-> <<245, 3>>]
  /\ ScreenToWorldAt(camera, rect, [x |-> Q(50), y |-> <<245, 3>>])
       = [x |-> Q(0), y |-> Q(0)]

\* ========================================================================
\* Claims about the reset of the viewport
\* ========================================================================
\* C30: cleanupViewport, in whatever interaction state it is called, leaves
\* isPanning = false, isSpacePressed = false and pointerId = null, and the
\* camera as it was.
C30_CleanupLeavesIdle ==
  [][(steps' = steps + 1 /\ last'.op = "cleanupViewport") =>
       /\ ~viewportState'.isPanning
       /\ ~viewportState'.isSpacePressed
       /\ viewportState'.pointerId = NoPointer
       /\ camera' = camera]_vars

\* the viewport was reset after a drag had been started at (100, 100) from
\* the fitted camera
C30_Witness ==
  /\ last.op = "cleanupViewport"
  /\ last.hit
  /\ ~viewportState.isPanning
  /\ viewportState.startX = 100
  /\ viewportState.startCameraX = Q(-120)
  /\ camera = [x |-> Q(-120), y |-> Q(-185), zoom |-> <<1, 3>>]

\* ========================================================================
\* Claims about pointers and pans
\* ========================================================================
\* C31: a pointermove leaves camera x, y and zoom as they were when no pan
\* is going on, and when a pan is going on but the event's pointer id is not
\* the active pointerId.
C31_ForeignMoveIgnored ==
  [][(/\ steps' = steps + 1
      /\ last'.op = "pointermove"
      /\ (~viewportState.isPanning \/ last'.id # viewportState.pointerId))
       => camera' = camera]_vars

\* during the pan of pointer 1, started at (100, 100) from the fitted
\* camera, pointer 2 has moved to (150, 130): the camera is the fitted one
C31_Witness ==
  /\ last.op = "pointermove"
  /\ last.id = 2
  /\ last.x = 150
  /\ viewportState.isPanning
  /\ viewportState.pointerId = 1
  /\ viewportState.startX = 100
  /\ currentContentSize = [width |-> 480, height |-> 170]
  /\ camera = [x |-> Q(-120), y |-> Q(-185), zoom |-> <<1, 3>>]

\* ========================================================================
\* Claims about the query state (specification SpecQuery)
\* ========================================================================
\* C32: the call of setQuery or clearQuery that returned last has invoked
\* every listener that was registered when it was made, with the value it
\* assigned (null for clearQuery), whatever the listeners did or threw.
C32_EveryListenerNotified ==
  \A k \in 1..Len(lastNotify.reg) :
    \E j \in 1..Len(lastNotify.got) :
      lastNotify.got[j] = <<lastNotify.reg[k], lastNotify.q>>

\* ========================================================================
\* Claims about the theme (specification SpecTheme)
\* ========================================================================
\* C33: after initTheme a change of the system colour scheme sets the theme
\* to the new system preference as long as the user has chosen no theme
\* (nothing saved before initTheme, no click on the toggle), and leaves the
\* theme alone once the user has chosen one.
C33_ThemeFollowsSystem ==
  [][(tSteps' = tSteps + 1 /\ lastTheme' = "systemChange" /\ themeReady) =>
       IF manual THEN dataTheme' = dataTheme
       ELSE dataTheme' = (IF systemDark' THEN "dark" ELSE "light")]_vars


\* the planNodeIds carried by the operators of a list
IdsOf(ops) == {ops[k].planNodeId : k \in 1..Len(ops)}

\* the last operator of the list with the given planNodeId
LastWithId(ops, id) ==
  ops[CHOOSE k \in 1..Len(ops) :
        /\ ops[k].planNodeId = id
        /\ \A n \in (k + 1)..Len(ops) : ops[n].planNodeId # id]

\* C34: combineJoinOperators(probes, builds) returns exactly one record per
\* distinct planNodeId among the inputs, in ascending numeric planNodeId
\* order; a record's probe (build) is non-null exactly when a probe (build)
\* with that planNodeId exists, and is then the last such operator of the input
C34_CombinedJoins ==
  jpc = "done" =>
    /\ {joins[k].planNodeId : k \in 1..Len(joins)} = IdsOf(probes) \cup IdsOf(builds)
    /\ \A i, j \in 1..Len(joins) : i # j => joins[i].planNodeId # joins[j].planNodeId
    /\ \A i, j \in 1..Len(joins) :
         (/\ i < j
          /\ ~IsNaN(ParseInt(joins[i].planNodeId))
          /\ ~IsNaN(ParseInt(joins[j].planNodeId)))
           => QLe(ParseInt(joins[i].planNodeId), ParseInt(joins[j].planNodeId))
    /\ \A k \in 1..Len(joins) :
         /\ joins[k].probe # NoOperator <=> joins[k].planNodeId \in IdsOf(probes)
         /\ joins[k].planNodeId \in IdsOf(probes)
              => joins[k].probe = LastWithId(probes, joins[k].planNodeId)
         /\ joins[k].build # NoOperator <=> joins[k].planNodeId \in IdsOf(builds)
         /\ joins[k].planNodeId \in IdsOf(builds)
              => joins[k].build = LastWithId(builds, joins[k].planNodeId)

\* ========================================================================
\* Claims about the pan gesture (specification Spec)
\* ========================================================================
\* C35: in every state that pointer, Space, wheel and keyboard events and
\* cleanupViewport can lead to, in any order, isPanning is true exactly when
\* pointerId is not null.
C35_PanningIffPointer ==
  viewportState.isPanning <=> viewportState.pointerId # NoPointer

\* the pan of pointer 2, started at (150, 130) with Space held, was ended by
\* the pointerup of pointer 2
C35_Witness ==
  /\ last.op = "pointerup"
  /\ last.id = 2
  /\ last.hit
  /\ viewportState.isSpacePressed
  /\ ~viewportState.isPanning
  /\ viewportState.pointerId = NoPointer
  /\ viewportState.startX = 150
  /\ viewportState.startCameraX = Q(0)

\* where the drag anchor, the pointer at (px, py) and the zoom z put the
\* camera, before the clamp
AnchoredAt(vs, px, py, z) ==
  [x |-> QSub(vs.startCameraX, QDiv(Q(px - vs.startX), z)),
   y |-> QSub(vs.startCameraY, QDiv(Q(py - vs.startY), z)),
   zoom |-> z]

\* C36: a pointermove of the active pointer overwrites camera.x, y, also
\* after wheel or keyboard events changed the camera in the middle of the
\* pan: the camera it leaves is the clamp of the position given by the drag
\* anchor recorded at pointerdown, the pointer position and the current
\* zoom, whatever x, y were before; the zoom stays in [MIN_ZOOM, MAX_ZOOM]
\* and, with content of non-zero size, the camera is in the pannable region.
C36_LastWriterWins ==
  [][(/\ steps' = steps + 1
      /\ last'.op = "pointermove"
      /\ viewportState.isPanning
      /\ last'.id = viewportState.pointerId)
       => /\ camera' = ClampedInto(AnchoredAt(viewportState, last'.x, last'.y, camera.zoom),
                                   rect, currentContentSize)
          /\ QLe(<<1, 10>>, camera'.zoom)
          /\ QLe(camera'.zoom, Q(6))
          /\ ~ZeroContent => InRegion(camera', rect, currentContentSize)]_vars

\* a drag started at (100, 100) from camera (0, 0); a wheel tick towards the
\* user then took the zoom to 1.01 and moved the camera; the pointermove to
\* (150, 130) has put the camera at (0 - 50 / 1.01, 0 - 30 / 1.01)
C36_Witness ==
  /\ last.op = "pointermove"
  /\ last.hit
  /\ last.x = 150
  /\ viewportState.isPanning
  /\ viewportState.startX = 100
  /\ viewportState.startCameraX = Q(0)
  /\ currentContentSize = [width |-> 480, height |-> 170]
  /\ camera = [x |-> <<-5000, 101>>, y |-> <<-3000, 101>>, zoom |-> <<101, 100>>]

\* the event is a pointerdown that starts a pan: the secondary button, or
\* the primary button while Space is held
QualifyingDown(ev, vs) ==
  ev.op = "pointerdown" /\ (ev.button = 2 \/ (ev.button = 0 /\ vs.isSpacePressed))

\* C37: a qualifying pointerdown during a pan makes its pointer the active
\* one and its position and the camera the drag anchor; a pointermove or
\* pointerup of any other pointer changes nothing, and a pointer event ends
\* the pan only when it is the pointerup of the active pointer.
C37_NewestPointerDrives ==
  [][(steps' = steps + 1 /\ viewportState.isPanning) =>
       /\ QualifyingDown(last', viewportState) =>
            /\ viewportState'.isPanning
            /\ viewportState'.pointerId = last'.id
            /\ DragAnchor(viewportState') = <<last'.x, last'.y, camera.x, camera.y>>
       /\ (last'.op \in {"pointermove", "pointerup"} /\ last'.id # viewportState.pointerId)
            => camera' = camera /\ viewportState' = viewportState
       /\ (last'.op = "pointerup" /\ last'.id = viewportState.pointerId)
            => ~viewportState'.isPanning
       /\ (last'.op \in {"pointerdown", "pointermove", "pointerup"}
             /\ ~viewportState'.isPanning)
            => last'.op = "pointerup" /\ last'.id = viewportState.pointerId]_vars

\* pointer 1 had dragged the camera from (0, 0) to (-50, -30) when the
\* secondary button of pointer 2 went down at (150, 130): pointer 2 is the
\* active one and the anchor is its position and the dragged camera
C37_Witness ==
  /\ last.op = "pointerdown"
  /\ last.id = 2
  /\ last.button = 2
  /\ viewportState.isPanning
  /\ viewportState.pointerId = 2
  /\ DragAnchor(viewportState) = <<150, 130, Q(-50), Q(-30)>>
  /\ camera = [x |-> Q(-50), y |-> Q(-30), zoom |-> Q(1)]

\* ========================================================================
\* Claims about the bounds of the clamp (specification SpecStep)
\* ========================================================================
\* C38: whenever the content has non-zero width and height, the viewport
\* has positive width and height and the zoom is in [MIN_ZOOM, MAX_ZOOM],
\* the bounds clampCameraToBounds computes satisfy maxX > minX and
\* maxY > minY: neither guard skips its clamp.
C38_BoundsOrdered ==
  (/\ currentContentSize.width > 0
   /\ currentContentSize.height > 0
   /\ rect.width > 0
   /\ rect.height > 0
   /\ QLe(<<1, 10>>, camera.zoom)
   /\ QLe(camera.zoom, Q(6)))
    => /\ QLt(MinX(camera, rect, currentContentSize), MaxX(camera, rect, currentContentSize))
       /\ QLt(MinY(camera, rect, currentContentSize), MaxY(camera, rect, currentContentSize))

\* an arrow key was handled, and its clamp computed the bounds, at zoom 1/3
\* over content of 480 x 170: the viewport shows 720 x 540 world units, the
\* margins are positive and the bounds are 480 and 170 apart
C38_Witness ==
  /\ last.op = "keydown"
  /\ last.key = "ArrowLeft"
  /\ currentContentSize = [width |-> 480, height |-> 170]
  /\ rect.width = 240
  /\ camera.zoom = <<1, 3>>
  /\ MarginX(camera, rect, currentContentSize) = Q(120)
  /\ QSub(MaxX(camera, rect, currentContentSize),
          MinX(camera, rect, currentContentSize)) = Q(480)
  /\ QSub(MaxY(camera, rect, currentContentSize),
          MinY(camera, rect, currentContentSize)) = Q(170)
====
